---- MODULE Spec2Model ----
(***************************************************************************)
(* uSync (uber-workflow/usync): import and land of changes between a hub   *)
(* monorepo and the external repos mapped to its subdirectories.           *)
(*                                                                         *)
(* The model follows src/lib/USync.js (USync.import, USync.land, the       *)
(* PQueue wrapper) and src/lib/git.js (the Git helper) step by step: one   *)
(* action per awaited git invocation.  git itself is modelled by what its  *)
(* commands do to a working copy (branch, index, working tree, remotes)    *)
(* and to a remote (branch -> commit).                                     *)
(***************************************************************************)
EXTENDS Integers, Sequences, FiniteSets, TLC

(***************************************************************************)
(* Bounds of the model.                                                    *)
(***************************************************************************)
MaxCalls == 2
MaxFaults == 2

(***************************************************************************)
(* Names.  A repo name is "owner/name", kept as its tokens so that         *)
(* split('/') and sanitizeFilename can be computed.                        *)
(***************************************************************************)
Hub     == <<"foo", "/", "hub">>
RepoA   == <<"foo", "/", "a">>
RepoB   == <<"foo", "/", "b">>
HubFork == <<"bar", "/", "hub">>
AFork   == <<"bar", "/", "a">>

AllRepos == {Hub, RepoA, RepoB, HubFork, AFork}

\* identities "Name <email>"
Operator == "op <op@x>"
Alice    == "alice <a@x>"
Bob      == "bob <b@x>"
Carol    == "carol <c@x>"

\* file paths as sequences of path components
CfgPath == <<".usyncrc.json">>
Paths   == { <<"a">>, <<"b">>, <<"sub", "a">>, <<"sub", "b">>,
             <<"lib", "a">>, <<"lib", "b">>, <<"sub", "deep", "a">>, <<"deep", "a">>,
             CfgPath }

\* a tree maps every path to its content, 0 for an absent file
EmptyTree == [p \in Paths |-> 0]

TreeOf(pairs) ==
  [p \in Paths |-> IF \E e \in pairs : e[1] = p
                   THEN (CHOOSE e \in pairs : e[1] = p)[2] ELSE 0]

(***************************************************************************)
(* Commits are content-addressed: a commit is its tree, author, message    *)
(* and parent (a sequence holding the parent, empty for a root commit).    *)
(* The sha of a commit is the commit value itself.                         *)
(***************************************************************************)
MkCommit(tree, author, msg, parent) ==
  [tree |-> tree, author |-> author, msg |-> msg, parent |-> parent]

RECURSIVE Chain(_)
\* the commit and its ancestors, newest first
Chain(c) == IF c.parent = <<>> THEN <<c>> ELSE <<c>> \o Chain(c.parent[1])

ChainSet(c) == { Chain(c)[i] : i \in 1..Len(Chain(c)) }

IsAncestor(a, c) == a \in ChainSet(c)

\* the paths a commit changes with respect to its parent
Touched(c) ==
  LET base == IF c.parent = <<>> THEN EmptyTree ELSE c.parent[1].tree
  IN  { p \in Paths : c.tree[p] # base[p] }

IsUnder(dir, p) == Len(dir) <= Len(p) /\ SubSeq(p, 1, Len(dir)) = dir


(***************************************************************************)
(* Commit messages are sequences of lines; a line is plain text or a       *)
(* "Co-authored-by: <identity>" trailer.                                   *)
(***************************************************************************)
TextLine(t) == [kind |-> "text", val |-> t]
CoLine(a)   == [kind |-> "coauthor", val |-> a]

\* identities in localeCompare order
IdOrder == <<Alice, Bob, Carol, Operator>>

(***************************************************************************)
(* Working copies (git.js: one per local path) and remotes.                *)
(*   branch   the checked-out branch                                       *)
(*   heads    local branch -> <<commit>>, or <<>> when there is none       *)
(*   index    the staged tree                                              *)
(*   work     the files on disk (tracked and untracked)                    *)
(*   origin   the repo name the working copy was cloned from               *)
(*   remotes  the remotes added besides origin, as <<name, repo name>>     *)
(*   rrefs    remote-tracking refs, as <<remote, branch, commit>>          *)
(* On a detached HEAD branch is "HEAD", as git rev-parse --abbrev-ref HEAD *)
(* prints it, and heads["HEAD"] holds the commit checked out.              *)
(***************************************************************************)
BranchNames == {"master", "x", "y", "z", "m", "c", "d", "e", "u", "o", "h", "p", "n", "imp", "fb",
                "HEAD"}

Origin == <<"origin">>

NoHeads == [b \in BranchNames |-> <<>>]

NoClone ==
  [exists |-> FALSE, origin |-> <<>>, branch |-> "master", heads |-> NoHeads,
   index |-> EmptyTree, work |-> EmptyTree, remotes |-> {}, rrefs |-> {}]

HeadCommit(w) == w.heads[w.branch][1]

HasRef(w, rn, b) == \E t \in w.rrefs : t[1] = rn /\ t[2] = b

Ref(w, rn, b) == (CHOOSE t \in w.rrefs : t[1] = rn /\ t[2] = b)[3]

SetRef(w, rn, b, c) ==
  [w EXCEPT !.rrefs = { t \in @ : ~(t[1] = rn /\ t[2] = b) } \cup {<<rn, b, c>>}]

\* git clone <url> <path>: every branch of the remote becomes origin/<branch>
GitClone(r, rem) ==
  [exists  |-> TRUE,
   origin  |-> r,
   branch  |-> "master",
   heads   |-> [NoHeads EXCEPT !["master"] = rem["master"]],
   index   |-> rem["master"][1].tree,
   work    |-> rem["master"][1].tree,
   remotes |-> {},
   rrefs   |-> { <<Origin, b, rem[b][1]>> : b \in { b \in BranchNames : rem[b] # <<>> } }]

\* git clean -df: untracked files are removed
GitClean(w) ==
  [w EXCEPT !.work = [p \in Paths |-> IF w.index[p] = 0 THEN 0 ELSE w.work[p]]]

\* git reset --hard <commit>: the branch, the index and the tracked files
\* follow the commit; an untracked file the commit does not hold stays
GitResetHard(w, c) ==
  [w EXCEPT !.heads[w.branch] = <<c>>,
            !.index = c.tree,
            !.work = [p \in Paths |->
                        IF c.tree[p] # 0 THEN c.tree[p]
                        ELSE IF w.index[p] # 0 THEN 0 ELSE w.work[p]]]

\* git checkout <existing branch>, from a working copy without local changes
GitCheckout(w, b) ==
  LET c == w.heads[b][1]
  IN  [w EXCEPT !.branch = b,
                !.heads["HEAD"] = <<>>,
                !.index = c.tree,
                !.work = [p \in Paths |->
                            IF c.tree[p] # 0 THEN c.tree[p]
                            ELSE IF w.index[p] # 0 THEN 0 ELSE w.work[p]]]

\* git branch -D <branch>: fails when there is no such branch
CanBranchDelete(w, b) == w.heads[b] # <<>> /\ w.branch # b

GitBranchDelete(w, b) == [w EXCEPT !.heads[b] = <<>>]

\* git checkout -b <branch>: local changes are carried over
GitCheckoutNew(w, b) == [w EXCEPT !.branch = b, !.heads[b] = <<HeadCommit(w)>>]

CanCheckoutNew(w, b) == w.heads[b] = <<>>

\* git status --porcelain prints nothing
WorkdirIsClean(w) == w.index = HeadCommit(w).tree /\ w.work = w.index

\* git add --all
GitAddAll(w) == [w EXCEPT !.index = w.work]

\* git commit --author --message: fails when nothing is staged
CanCommit(w) == w.index # HeadCommit(w).tree

GitCommit(w, author, msg) ==
  [w EXCEPT !.heads[w.branch] = <<MkCommit(w.index, author, msg, <<HeadCommit(w)>>)>>]

\* git remote add <name> <url> fails when the remote exists
CanRemoteAdd(w, rn) == rn # Origin /\ ~\E m \in w.remotes : m[1] = rn

GitRemoteAdd(w, rn, r) == [w EXCEPT !.remotes = @ \cup {<<rn, r>>}]

\* the repo a remote of the working copy points to
RemoteRepo(w, rn) ==
  IF rn = Origin THEN w.origin ELSE (CHOOSE m \in w.remotes : m[1] = rn)[2]

HasRemote(w, rn) == rn = Origin \/ \E m \in w.remotes : m[1] = rn

\* git remote remove <name> fails when there is no such remote; the
\* remote's tracking refs go with it
CanRemoteRemove(w, rn) == \E m \in w.remotes : m[1] = rn

GitRemoteRemove(w, rn) ==
  [w EXCEPT !.remotes = { m \in @ : m[1] # rn }, !.rrefs = { t \in @ : t[1] # rn }]


(***************************************************************************)
(* git merge --squash <ref>: the three-way merge of HEAD and <ref> over    *)
(* their merge base is staged and written to the working tree; HEAD stays. *)
(* It fails on a conflict, and when a file it has to write carries local   *)
(* changes or is an untracked file in the way.                             *)
(***************************************************************************)
MergeBase(ours, theirs) ==
  LET ch == Chain(theirs)
      i  == CHOOSE i \in 1..Len(ch) :
              /\ IsAncestor(ch[i], ours)
              /\ \A j \in 1..(i - 1) : ~IsAncestor(ch[j], ours)
  IN  ch[i]

HasMergeBase(ours, theirs) == \E c \in ChainSet(theirs) : IsAncestor(c, ours)

MergeConflicts(ours, theirs) ==
  LET b == MergeBase(ours, theirs).tree
  IN  { p \in Paths : /\ ours.tree[p] # b[p]
                      /\ theirs.tree[p] # b[p]
                      /\ ours.tree[p] # theirs.tree[p] }

MergedTree(ours, theirs) ==
  LET b == MergeBase(ours, theirs).tree
  IN  [p \in Paths |-> IF theirs.tree[p] # b[p] THEN theirs.tree[p]
                       ELSE ours.tree[p]]

CanMergeSquash(w, theirs) ==
  /\ HasMergeBase(HeadCommit(w), theirs)
  /\ MergeConflicts(HeadCommit(w), theirs) = {}
  /\ \A p \in Paths :
       MergedTree(HeadCommit(w), theirs)[p] # HeadCommit(w).tree[p]
         => /\ w.work[p] = HeadCommit(w).tree[p]
            /\ w.index[p] = HeadCommit(w).tree[p]

GitMergeSquash(w, theirs) ==
  LET m == MergedTree(HeadCommit(w), theirs)
  IN  [w EXCEPT !.index = [p \in Paths |->
                   IF m[p] # HeadCommit(w).tree[p] THEN m[p] ELSE w.index[p]],
                !.work = [p \in Paths |->
                   IF m[p] # HeadCommit(w).tree[p] THEN m[p] ELSE w.work[p]]]

(***************************************************************************)
(* git diff --cached --binary [<path>]: the staged changes against HEAD,   *)
(* limited to the files under <path>.  A patch is a set of file changes    *)
(* [path, pre, post]; a detected rename is its deletion and its addition.  *)
(* The empty set is the empty output ''.                                   *)
(***************************************************************************)
GitDiffCached(w, dir) ==
  { [path |-> p, pre |-> HeadCommit(w).tree[p], post |-> w.index[p]] :
      p \in { q \in Paths : /\ IsUnder(dir, q)
                            /\ HeadCommit(w).tree[q] # w.index[q] } }

(***************************************************************************)
(* git apply -p<n> --directory=<dir>: n - 1 leading components are taken   *)
(* off every path of the patch (the first of the n is the a/ or b/ of the  *)
(* diff header), <dir> is put in front, and the patch is applied to the    *)
(* working tree, all of it or nothing.  It fails when a file to change or  *)
(* delete is not there with the content the patch starts from, when a file *)
(* to add is already there, and when a path is too short to strip.         *)
(***************************************************************************)
ApplyPath(p, strip, dir) == dir \o SubSeq(p, strip + 1, Len(p))

CanApply(w, patch, strip, dir) ==
  \A e \in patch :
    /\ Len(e.path) > strip
    /\ ApplyPath(e.path, strip, dir) \in Paths
    /\ w.work[ApplyPath(e.path, strip, dir)] = e.pre

GitApply(w, patch, strip, dir) ==
  [w EXCEPT !.work = [q \in Paths |->
      IF \E e \in patch : ApplyPath(e.path, strip, dir) = q
      THEN (CHOOSE e \in patch : ApplyPath(e.path, strip, dir) = q).post
      ELSE w.work[q]]]

(***************************************************************************)
(* git log HEAD...<ref> --right-only [-- <paths>]: the commits reachable   *)
(* from <ref> and not from HEAD, newest first, that change a file under    *)
(* one of <paths> (every commit when no path is given).                    *)
(***************************************************************************)
CommitInLog(c, paths) ==
  paths = <<>> \/ \E i \in 1..Len(paths) : \E p \in Touched(c) : IsUnder(paths[i], p)

RECURSIVE FilterLog(_, _, _)
FilterLog(ch, ours, paths) ==
  IF ch = <<>> THEN <<>>
  ELSE IF ~IsAncestor(ch[1], ours) /\ CommitInLog(ch[1], paths)
       THEN <<ch[1]>> \o FilterLog(Tail(ch), ours, paths)
       ELSE FilterLog(Tail(ch), ours, paths)

GitLogRightOnly(w, theirs, paths) == FilterLog(Chain(theirs), HeadCommit(w), paths)


(***************************************************************************)
(* git push.  Without --force a push is refused when the remote branch     *)
(* exists and is not an ancestor of the pushed commit.                     *)
(***************************************************************************)
CanPush(rem, b, c) == rem[b] = <<>> \/ IsAncestor(rem[b][1], c)

\* a push that moves the remote's master along with the branch
PushToWithMaster(rem, b, c) == [rem EXCEPT ![b] = <<c>>, !["master"] = <<c>>]

PushTo(rem, b, c) == [rem EXCEPT ![b] = <<c>>]

(***************************************************************************)
(* Path strings of the configuration, kept as tokens: "/" is a separator   *)
(* token, everything else a path component.                                *)
(***************************************************************************)
\* p.replace(/^\/|\/$/g, '')
StripSlashes(s) ==
  LET a == IF s # <<>> /\ s[1] = "/" THEN Tail(s) ELSE s
  IN  IF a # <<>> /\ a[Len(a)] = "/" THEN SubSeq(a, 1, Len(a) - 1) ELSE a

\* the components of a normalized path string
Components(s) == SelectSeq(s, LAMBDA t : t # "/")

\* path.split('/').length
SplitLength(s) == Cardinality({ i \in 1..Len(s) : s[i] = "/" }) + 1

RECURSIVE PutEntry(_, _, _)
\* result[key] = value on an object kept as a sequence of <<key, value>>
PutEntry(obj, key, value) ==
  IF obj = <<>> THEN << <<key, value>> >>
  ELSE IF obj[1][1] = key THEN << <<key, value>> >> \o Tail(obj)
       ELSE <<obj[1]>> \o PutEntry(Tail(obj), key, value)

RECURSIVE NormalizeMapping(_, _)
\* Object.entries(mapping).reduce(..., {})
NormalizeMapping(entries, acc) ==
  IF entries = <<>> THEN acc
  ELSE NormalizeMapping(Tail(entries),
         PutEntry(acc, StripSlashes(entries[1][1]), StripSlashes(entries[1][2])))

(***************************************************************************)
(* JavaScript values, as far as validateConfig and Git.configure look at    *)
(* them: a value is [t, s, f] with t its kind, s the text of a string, a    *)
(* number or a function's name, and f the own properties of an object as    *)
(* <<key, value>> pairs.                                                    *)
(***************************************************************************)
Js(t, s, f) == [t |-> t, s |-> s, f |-> f]

JsUndefined == Js("undefined", "", {})

JsNull == Js("null", "", {})

JsNumber(s) == Js("number", s, {})

JsString(s) == Js("string", s, {})

JsFunction(name) == Js("function", name, {})

JsObject(f) == Js("object", "", f)

\* typeof x
TypeOf(x) == IF x.t = "null" THEN "object" ELSE x.t

\* x in a condition
Truthy(x) ==
  CASE x.t \in {"undefined", "null"} -> FALSE
    [] x.t = "number" -> x.s # "0"
    [] x.t = "string" -> x.s # ""
    [] OTHER -> TRUE

\* key in obj
HasKey(obj, key) == \E e \in obj.f : e[1] = key

\* obj[key] of a value that is not undefined or null
Get(obj, key) ==
  IF HasKey(obj, key) THEN (CHOOSE e \in obj.f : e[1] = key)[2] ELSE JsUndefined

\* pick(obj, keys) of just-pick: the listed keys that are in obj
Pick(obj, keys) == JsObject({ e \in obj.f : e[1] \in keys })

\* Object.assign(target, source)
ObjectAssign(target, source) ==
  JsObject({ e \in target.f : ~HasKey(source, e[1]) } \cup source.f)

\* GLOBAL_OPTS of git.js as the module is loaded
DefaultOpts ==
  JsObject({ <<"reposCloneDir", JsString("../.local-repos")>>,
             <<"getRemoteUrl", JsFunction("getRemoteUrl")>> })

\* USync.validateConfig(config) throws its USyncError
ValidateConfigThrows(config) ==
  ~Truthy(config) \/ TypeOf(Get(config, "mapping")) # "object"

\* Git.configure(opts) throws 'invalid git opts'
ConfigureThrows(opts) ==
  \/ Truthy(Get(opts, "getRemoteUrl")) /\ TypeOf(Get(opts, "getRemoteUrl")) # "function"
  \/ Truthy(Get(opts, "reposCloneDir")) /\ TypeOf(Get(opts, "reposCloneDir")) # "string"

\* GLOBAL_OPTS after Git.configure(opts) returned
Configured(opts, global) ==
  ObjectAssign(global, Pick(opts, {"getRemoteUrl", "reposCloneDir"}))

(***************************************************************************)
(* The documents .usyncrc.json can hold, by file content.  A document is   *)
(* [parses, hasMapping, mapping]; mapping is a sequence of                 *)
(* <<repoName, <<parentPath, childPath>>, ... >>.                          *)
(***************************************************************************)
ConfigDoc(content) ==
  IF content = 1
  THEN [parses |-> TRUE, hasMapping |-> TRUE,
        mapping |-> << <<RepoA, << <<<<"/", "sub">>, <<"/">>>> >> >>,
                       <<RepoB, << <<<<"/", "lib">>, <<"/">>>> >> >> >>]
  ELSE IF content = 2
  THEN [parses |-> TRUE, hasMapping |-> TRUE,
        mapping |-> << <<RepoA, << <<<<"/", "sub">>, <<"/">>>> >> >> >>]
  ELSE IF content = 3
  THEN [parses |-> TRUE, hasMapping |-> TRUE,
        mapping |-> << <<RepoA, << <<<<"/", "sub">>, <<"/">>>> >> >>,
                       <<RepoB, <<>>>> >>]
  ELSE IF content = 4
  THEN [parses |-> TRUE, hasMapping |-> TRUE,
        mapping |-> << <<RepoA, << <<<<"/", "sub">>, <<"/">>>>,
                                   <<<<"/", "lib">>, <<"/", "lib">>>> >> >> >>]
  ELSE IF content = 5
  THEN [parses |-> FALSE, hasMapping |-> FALSE, mapping |-> <<>>]
  ELSE IF content = 6
  THEN [parses |-> TRUE, hasMapping |-> TRUE,
        mapping |-> << <<RepoA, << <<<<"/", "sub">>, <<"/">>>> >> >>,
                       <<Hub, << <<<<"/">>, <<"/">>>> >> >> >>]
  ELSE [parses |-> TRUE, hasMapping |-> FALSE, mapping |-> <<>>]

NoConfig == [defined |-> FALSE, hasMapping |-> FALSE, mapping |-> <<>>]

\* USync._getConfig: git show <committish>:.usyncrc.json, JSON.parse, and the
\* slashes stripped; undefined when the file is missing or does not parse
GetConfig(commit) ==
  IF commit.tree[CfgPath] = 0 \/ ~ConfigDoc(commit.tree[CfgPath]).parses
  THEN NoConfig
  ELSE LET doc == ConfigDoc(commit.tree[CfgPath])
       IN  [defined    |-> TRUE,
            hasMapping |-> doc.hasMapping,
            mapping    |-> [i \in 1..Len(doc.mapping) |->
                              <<doc.mapping[i][1],
                                NormalizeMapping(doc.mapping[i][2], <<>>)>>]]

\* the value _getConfig returns, as validateConfig sees it
ConfigValue(config) ==
  IF ~config.defined THEN JsUndefined
  ELSE JsObject(IF config.hasMapping THEN {<<"mapping", JsObject({})>>} ELSE {})

\* a validateConfig that lets every configuration pass
ValidConfigAny(config) == TRUE

\* USync.validateConfig does not throw
ValidConfig(config) == ~ValidateConfigThrows(ConfigValue(config))

\* config.mapping[repoName], <<>> when there is none
MappingOf(config, r) ==
  IF \E i \in 1..Len(config.mapping) : config.mapping[i][1] = r
  THEN config.mapping[CHOOSE i \in 1..Len(config.mapping) : config.mapping[i][1] = r][2]
  ELSE <<>>

\* git.getRemoteName: repoName.split('/')[0]
GetRemoteName(r) ==
  IF \E i \in 1..Len(r) : r[i] = "/"
  THEN SubSeq(r, 1, (CHOOSE i \in 1..Len(r) : r[i] = "/" /\ \A j \in 1..(i-1) : r[j] # "/") - 1)
  ELSE r

\* git.getLocalPath: sanitizeFilename(repoName) under reposCloneDir; the
\* path separator is not a legal file name character and is dropped
GetLocalPath(r) == SelectSeq(r, LAMBDA t : t # "/")

LocalPaths == { GetLocalPath(r) : r \in AllRepos }


(***************************************************************************)
(* git.getGlobalUser, the operator's own identity (git config --global     *)
(* user.name / user.email).                                                *)
(***************************************************************************)
GetGlobalUser == Operator

(***************************************************************************)
(* Git.getLogAuthors: the authors and the Co-authored-by identities of the *)
(* commits, without duplicates, sorted with localeCompare.                 *)
(***************************************************************************)
CommitIdentities(c) ==
  {c.author} \cup { c.msg[i].val : i \in { j \in 1..Len(c.msg) : c.msg[j].kind = "coauthor" } }

GetLogAuthors(commits) ==
  SelectSeq(IdOrder,
            LAMBDA a : \E i \in 1..Len(commits) : a \in CommitIdentities(commits[i]))

\* a message that gets a trailer for every identity
BuildMessageAll(message, authors, commitAuthor, globalUser) ==
  <<TextLine(message), TextLine("")>> \o [i \in 1..Len(authors) |-> CoLine(authors[i])]

\* a message whose trailers follow the text without a blank line
BuildMessageJoined(message, authors, commitAuthor, globalUser) ==
  LET trailers == SelectSeq(authors, LAMBDA a : a # commitAuthor /\ a # globalUser)
  IN  <<TextLine(message)>> \o [i \in 1..Len(trailers) |-> CoLine(trailers[i])]

\* the commit message with the Co-authored-by trailers of everybody but the
\* commit author and the global user
BuildMessage(message, authors, commitAuthor, globalUser) ==
  LET trailers == SelectSeq(authors, LAMBDA a : a # commitAuthor /\ a # globalUser)
  IN  IF trailers # <<>>
      THEN <<TextLine(message), TextLine("")>> \o
           [i \in 1..Len(trailers) |-> CoLine(trailers[i])]
      ELSE <<TextLine(message)>>

(***************************************************************************)
(* Git.fetchLatest: ensureClone; away from master the working copy is      *)
(* cleaned, reset, switched to master and the branch deleted; then         *)
(* git fetch origin master and git reset --hard origin/master.             *)
(* FetchLatestLocal is the part before the fetch, FetchLatestDone the      *)
(* whole of it when the fetch succeeds.                                    *)
(***************************************************************************)
EnsureClone(w, r, R) == IF w.exists THEN w ELSE GitClone(r, R[r])

\* git rev-parse --abbrev-ref HEAD
GetCurrentBranch(w) == w.branch

\* a fetchLatest that stays on the branch it finds checked out
FetchLatestLocalStay(w, r, R) == EnsureClone(w, r, R)

FetchLatestLocal(w, r, R) ==
  LET c == EnsureClone(w, r, R)
      currentBranch == GetCurrentBranch(c)
      m == GitCheckout(GitResetHard(GitClean(c), HeadCommit(c)), "master")
  IN  IF currentBranch # "master"
      THEN IF currentBranch # "HEAD" THEN GitBranchDelete(m, currentBranch) ELSE m
      ELSE c

FetchLatestDone(w, r, R) ==
  LET l == FetchLatestLocal(w, r, R)
      m == R[l.origin]["master"][1]
  IN  GitResetHard(SetRef(l, Origin, "master", m), m)

\* what a failed fetchLatest leaves: no clone when the clone failed, the
\* local part when the fetch failed
FetchLatestFailed(w, r, R) == IF w.exists THEN FetchLatestLocal(w, r, R) ELSE w

(***************************************************************************)
(* State.                                                                  *)
(*   remote     repo name -> branch -> <<commit>> (what origin holds)      *)
(*   wc         local path -> working copy                                 *)
(*   plan       the calls the callers are still going to make, in order    *)
(*   queue      per USync instance, the PQueue's waiting calls             *)
(*   pending    per USync instance, the PQueue's running calls             *)
(*   calls      call id -> the invocation: options, position, locals       *)
(*   tasks      the async bodies running inside a Promise.all              *)
(*   delivered  call id -> <<outcome>> once the caller's promise settled   *)
(*   hist       call id -> what the call did (history, never read by the   *)
(*              program)                                                   *)
(*   faults     how many times the network or a remote has failed a fetch  *)
(*              or a push that could have succeeded                        *)
(*   globalOpts GLOBAL_OPTS of git.js, the options Git.configure sets       *)
(*   arg, ret   the argument and the outcome of a direct call of one of the *)
(*              exported functions (USync.validateConfig, Git.configure)    *)
(***************************************************************************)
VARIABLES remote, wc, plan, queue, pending, calls, tasks, delivered, hist, faults,
          globalOpts, arg, ret

vars == <<remote, wc, plan, queue, pending, calls, tasks, delivered, hist, faults, globalOpts, arg, ret>>

Instances == {"usync1", "usync2"}

\* new USync(parentRepoName)
ParentRepoName(inst) == Hub

\* new PQueue({concurrency: 1})
Concurrency == 1

CallIds == 1..MaxCalls

NoRepo == <<>>

\* the options of a call; a field a method does not read is left at its default
LandOpts(headBranch, headRepoName, perRepo) ==
  [headBranch |-> headBranch, headRepoName |-> headRepoName,
   generic |-> "generic message", perRepo |-> perRepo, fallbackBranch |-> "fb",
   baseRepoName |-> NoRepo, message |-> "", newBranch |-> ""]

ImportOpts(baseRepoName, headRepoName, headBranch) ==
  [headBranch |-> headBranch, headRepoName |-> headRepoName,
   generic |-> "", perRepo |-> {}, fallbackBranch |-> "",
   baseRepoName |-> baseRepoName, message |-> "import message", newBranch |-> "imp"]

NoErr == <<>>

Err(name, repos, at) == <<[name |-> name, repos |-> repos, at |-> at]>>

NoResult == [status |-> "none", value |-> {}, error |-> NoErr]

Resolved(value) == [status |-> "resolved", value |-> value, error |-> NoErr]

Rejected(err) == [status |-> "rejected", value |-> {}, error |-> err]

NewCall(inst, kind, opts) ==
  [inst |-> inst, kind |-> kind, opts |-> opts, pc |-> "new",
   config |-> NoConfig, landed |-> {}, failed |-> <<>>, err |-> NoErr,
   author |-> "", msg |-> <<>>, i |-> 0, patch |-> {}, result |-> NoResult]

\* what a call did, for the properties:
\*   addedRemote    it added the fork remote
\*   applyFailed    the repos whose git apply failed
\*   dirty, clean   the repos workdirIsClean found dirty, clean
\*   committed      <<repo, commit>> of every commit it made
\*   pushTried      the repos whose push to master was attempted
\*   pushed         <<repo, commit>> of every push to master that succeeded
\*   fallback       <<repo, commit>> of every fallback branch pushed
\*   strayPush      a push failed when land was no longer awaiting it
\*   fallbackFailed the repos whose fallback checkout or push failed
\*   mapped         the keys of config.mapping when commit-and-push started
\*   inSync         the mapped repos whose master, when the call fetched it,
\*                  held what the hub's master held under their mapping
\*   ranges         <<repo, commits>>: the commits git log listed when the
\*                  author and the message of the repo's commit were computed
\*   meta           import: <<author, message>> once computed
\*   source         import: <<the source branch's commit>> once merged
\*   onto           import: <<the hub commit newBranch was created at>>
\*   ontoChild      import: <<the base repo's commit the source was merged into>>
\*   branchPushed   import: <<the commit pushed as newBranch>>
NoHist ==
  [addedRemote |-> FALSE, applyFailed |-> {}, dirty |-> {}, clean |-> {},
   committed |-> {}, pushTried |-> {}, pushed |-> {}, fallback |-> {},
   strayPush |-> {}, fallbackFailed |-> {}, mapped |-> {}, inSync |-> {},
   ranges |-> {},
   meta |-> <<>>, source |-> <<>>, onto |-> <<>>,
   ontoChild |-> <<>>, branchPushed |-> <<>>]

(***************************************************************************)
(* The repositories at the start.                                          *)
(***************************************************************************)
InitMsg == <<TextLine("init")>>

HubMaster0 ==
  MkCommit(TreeOf({<<CfgPath, 1>>, <<<<"a">>, 1>>, <<<<"sub", "a">>, 1>>, <<<<"lib", "a">>, 1>>}),
           Operator, InitMsg, <<>>)

ChildMaster0 == MkCommit(TreeOf({<<<<"a">>, 1>>}), Operator, InitMsg, <<>>)

\* a commit on top of parent that sets the given paths
Change(parent, author, text, pairs) ==
  MkCommit([p \in Paths |-> IF \E e \in pairs : e[1] = p
                            THEN (CHOOSE e \in pairs : e[1] = p)[2]
                            ELSE parent.tree[p]],
           author, <<TextLine(text)>>, <<parent>>)

\* the commit with Co-authored-by trailers added to its message
WithCoAuthors(c, ids) ==
  [c EXCEPT !.msg = @ \o <<TextLine("")>> \o [i \in 1..Len(ids) |-> CoLine(ids[i])]]

\* the trailers the branches x carry: out of order, one of them twice, and
\* the operator among them
CoAuthorsX == <<Carol, Bob, Operator, Carol>>

\* hub branches: x adds sub/b; y changes sub/a and then adds lib/b; z changes a;
\* m moves a into sub (as sub/b) and sub/a out of it (as b); c changes the
\* mapping (RepoB is no longer mapped) together with lib/a
HubX == WithCoAuthors(Change(HubMaster0, Alice, "add sub/b", {<<<<"sub", "b">>, 1>>}),
                      CoAuthorsX)
HubM == Change(HubMaster0, Alice, "move files",
               {<<<<"a">>, 0>>, <<<<"sub", "b">>, 1>>, <<<<"sub", "a">>, 0>>, <<<<"b">>, 1>>})
HubC == Change(HubMaster0, Bob, "change mapping", {<<CfgPath, 2>>, <<<<"lib", "a">>, 2>>})
\* d maps lib to RepoA's lib as a second entry and adds lib/b
HubD == Change(HubMaster0, Alice, "add lib/b", {<<CfgPath, 4>>, <<<<"lib", "b">>, 1>>})
\* e deletes .usyncrc.json and u makes it a file that is not JSON; both change a
HubE == Change(HubMaster0, Alice, "drop the configuration", {<<CfgPath, 0>>, <<<<"a">>, 2>>})
HubU == Change(HubMaster0, Alice, "break the configuration", {<<CfgPath, 5>>, <<<<"a">>, 2>>})
\* o adds sub/b as x does, authored by the operator alone
HubO == Change(HubMaster0, Operator, "add sub/b", {<<<<"sub", "b">>, 1>>})
\* h lists the hub itself in the mapping, root to root, and adds sub/b
HubH == Change(HubMaster0, Alice, "map the hub", {<<CfgPath, 6>>, <<<<"sub", "b">>, 1>>})
\* p gives RepoB an empty mapping and adds sub/b
HubP == Change(HubMaster0, Alice, "empty RepoB's mapping", {<<CfgPath, 3>>, <<<<"sub", "b">>, 1>>})
HubY == Change(Change(HubMaster0, Alice, "change sub/a", {<<<<"sub", "a">>, 2>>}),
               Bob, "add lib/b", {<<<<"lib", "b">>, 1>>})
HubZ == Change(HubMaster0, Bob, "change a", {<<<<"a">>, 2>>})

\* child branch: x adds b; n changes a and changes it back
ChildX == WithCoAuthors(Change(ChildMaster0, Alice, "add b", {<<<<"b">>, 1>>}), CoAuthorsX)
ChildO == Change(ChildMaster0, Operator, "add b", {<<<<"b">>, 1>>})
ChildN == Change(Change(ChildMaster0, Alice, "change a", {<<<<"a">>, 2>>}),
                 Bob, "change a back", {<<<<"a">>, 1>>})

\* later masters: the same change of a made in the hub's sub and in the child
HubMaster1   == Change(HubMaster0, Bob, "change sub/a", {<<<<"sub", "a">>, 2>>})
ChildMaster1 == Change(ChildMaster0, Bob, "change a", {<<<<"a">>, 2>>})

RemoteWith(hubMaster, childMaster) ==
  [r \in AllRepos |->
     IF r = Hub
     THEN [NoHeads EXCEPT !["master"] = <<hubMaster>>, !["x"] = <<HubX>>,
                          !["y"] = <<HubY>>, !["z"] = <<HubZ>>,
                          !["m"] = <<HubM>>, !["c"] = <<HubC>>,
                          !["d"] = <<HubD>>, !["e"] = <<HubE>>, !["u"] = <<HubU>>,
                          !["o"] = <<HubO>>, !["h"] = <<HubH>>, !["p"] = <<HubP>>]
     ELSE IF r = HubFork
     THEN [NoHeads EXCEPT !["master"] = <<HubMaster0>>, !["x"] = <<HubX>>]
     ELSE IF r = RepoA
     THEN [NoHeads EXCEPT !["master"] = <<childMaster>>, !["x"] = <<ChildX>>,
                          !["n"] = <<ChildN>>, !["o"] = <<ChildO>>]
     ELSE IF r = AFork
     THEN [NoHeads EXCEPT !["master"] = <<ChildMaster0>>, !["x"] = <<ChildX>>]
     ELSE [NoHeads EXCEPT !["master"] = <<ChildMaster0>>]]

\* the hub and the child as the tests set them up: sub holds what the child holds
Remote0 == RemoteWith(HubMaster0, ChildMaster0)

\* the masters have moved on since the branches were made, together or not
Remotes == { RemoteWith(h, c) : h \in {HubMaster0, HubMaster1},
                                c \in {ChildMaster0, ChildMaster1} }

\* the calls a caller may make
LandCalls ==
  { NewCall("usync1", "land", LandOpts(b, NoRepo, {})) : b \in {"x", "y", "z"} }
  \cup { NewCall("usync1", "land", LandOpts("x", HubFork, {})) }

ImportCalls ==
  { NewCall("usync1", "import", ImportOpts(RepoA, h, "x")) : h \in {NoRepo, AFork} }
  \cup { NewCall("usync1", "import", ImportOpts(RepoA, NoRepo, "n")) }

RECURSIVE SeqsUpTo(_, _)
\* the sequences over S of length 1..n
SeqsUpTo(S, n) ==
  IF n = 0 THEN {}
  ELSE { <<x>> : x \in S } \cup
       { <<x>> \o t : x \in S, t \in SeqsUpTo(S, n - 1) }

InitWith(plans, remotes) ==
  /\ remote \in remotes
  /\ wc = [l \in LocalPaths |-> NoClone]
  /\ plan \in plans
  /\ queue = [u \in Instances |-> <<>>]
  /\ pending = [u \in Instances |-> 0]
  /\ calls = [id \in CallIds |-> NewCall("usync1", "none", LandOpts("x", NoRepo, {}))]
  /\ tasks = {}
  /\ delivered = [id \in CallIds |-> <<>>]
  /\ hist = [id \in CallIds |-> NoHist]
  /\ faults = 0
  /\ globalOpts = DefaultOpts
  /\ arg = <<>>
  /\ ret = <<>>

\* a land from a fork and an import from a fork: between them they take
\* every step of both methods
QueueCalls ==
  { NewCall("usync1", "land", LandOpts("x", HubFork, {})),
    NewCall("usync1", "import", ImportOpts(RepoA, AFork, "x")) }

Init == InitWith(SeqsUpTo(QueueCalls, MaxCalls), {Remote0})


(***************************************************************************)
(* Helpers of the actions.                                                 *)
(***************************************************************************)
W(r) == wc[GetLocalPath(r)]

SetW(r, w) == [wc EXCEPT ![GetLocalPath(r)] = w]

HubOf(c) == ParentRepoName(c.inst)

\* land: headRepoName && headRepoName !== parentRepoName
\* import: headRepoName && headRepoName !== baseRepoName
IsFork(c) ==
  /\ c.opts.headRepoName # NoRepo
  /\ c.opts.headRepoName # (IF c.kind = "land" THEN HubOf(c) ELSE c.opts.baseRepoName)

RemoteNameOf(c) == IF IsFork(c) THEN GetRemoteName(c.opts.headRepoName) ELSE Origin

\* the method settles: its locals are dropped
Finish(c, err) ==
  [c EXCEPT !.pc = "done",
            !.result = IF err = NoErr THEN Resolved(c.landed) ELSE Rejected(err),
            !.config = NoConfig, !.landed = {}, !.failed = <<>>, !.err = NoErr,
            !.author = "", !.msg = <<>>, !.i = 0, !.patch = {}]

\* land's finally block: await removeForkRemote when isFork
EnterFinally(c, err) ==
  IF IsFork(c) THEN [c EXCEPT !.pc = "L_cleanup", !.err = err] ELSE Finish(c, err)

\* a throw in the method body
Throw(c, err) == IF c.kind = "land" THEN EnterFinally(c, err) ELSE Finish(c, err)

NewTask(id, phase, r, pc, mapping) ==
  [call |-> id, phase |-> phase, repo |-> r, pc |-> pc, mapping |-> mapping,
   i |-> 1, patch |-> {}, author |-> "", msg |-> <<>>]

WaitPc(phase) ==
  CASE phase = "apply"    -> "L_applyWait"
    [] phase = "commit"   -> "L_commitWait"
    [] phase = "fallback" -> "L_fallbackWait"
    [] phase = "prepare"  -> "I_prepareWait"
    [] phase = "cleanup"  -> "I_cleanupWait"

\* the caller of the Promise.all is still awaiting it
Awaited(t, cs) == cs[t.call].pc = WaitPc(t.phase)

\* land, after the commit-and-push Promise.all: the fallback tasks, each up
\* to its first await (git checkout -b fallbackBranch)
FallbackTasks(id, c) ==
  { NewTask(id, "fallback", c.failed[k], "F_checkout", <<>>) : k \in 1..Len(c.failed) }

\* import, after the push: the two cleanup bodies, each up to its first await
CleanupTasks(id, c) ==
  { NewTask(id, "cleanup", HubOf(c), "K_checkout", <<>>),
    NewTask(id, "cleanup", c.opts.baseRepoName, "K_reset", <<>>) }

\* the code after a Promise.all that resolved, up to its next await
Continue(c, phase) ==
  CASE phase = "apply"    -> [c EXCEPT !.pc = "L_user"]
    [] phase = "commit"   -> IF c.failed # <<>>
                             THEN [c EXCEPT !.pc = "L_fallbackWait"]
                             ELSE EnterFinally(c, NoErr)
    [] phase = "fallback" -> EnterFinally(c, Err("USyncError", c.failed, "push"))
    [] phase = "prepare"  -> [c EXCEPT !.pc = "I_meta"]
    [] phase = "cleanup"  -> Finish(c, NoErr)

Spawned(id, c, phase) ==
  IF phase = "commit" /\ c.failed # <<>> THEN FallbackTasks(id, c) ELSE {}

(***************************************************************************)
(* One step of a task t of a Promise.all; cs is calls as the step leaves   *)
(* it.  The task goes on as t2, resolves, or rejects with err.  When the   *)
(* last task resolves, Promise.all resolves and the caller runs on to its  *)
(* next await.  When a task rejects, Promise.all rejects at once: the      *)
(* caller leaves, and the other tasks keep running with nobody awaiting    *)
(* them.                                                                   *)
(***************************************************************************)
TaskGoes(t, t2, cs) ==
  /\ tasks' = (tasks \ {t}) \cup {t2}
  /\ calls' = cs

\* a Promise.all that resolves with the first body that resolves
TaskResolvesFirst(t, cs) ==
  IF Awaited(t, cs)
  THEN /\ calls' = [cs EXCEPT ![t.call] = Continue(cs[t.call], t.phase)]
       /\ tasks' = (tasks \ {t}) \cup Spawned(t.call, cs[t.call], t.phase)
  ELSE /\ calls' = cs
       /\ tasks' = tasks \ {t}

TaskResolves(t, cs) ==
  LET rest == tasks \ {t}
      last == ~\E u \in rest : u.call = t.call /\ u.phase = t.phase
  IN  IF Awaited(t, cs) /\ last
      THEN /\ calls' = [cs EXCEPT ![t.call] = Continue(cs[t.call], t.phase)]
           /\ tasks' = rest \cup Spawned(t.call, cs[t.call], t.phase)
      ELSE /\ calls' = cs
           /\ tasks' = rest

\* a Promise.all that loses a rejection and goes on
TaskRejectsIgnored(t, err, cs) == TaskResolves(t, cs)

TaskRejects(t, err, cs) ==
  /\ tasks' = tasks \ {t}
  /\ calls' = IF Awaited(t, cs)
              THEN [cs EXCEPT ![t.call] = Throw(cs[t.call], err)]
              ELSE cs


(***************************************************************************)
(* The queue: this.queue.add(() => method(...args)).                       *)
(***************************************************************************)
NextId == 1 + Cardinality({ id \in CallIds : calls[id].pc # "new" })

\* a caller calls usync.import(opts) or usync.land(opts): the call is queued
Submit ==
  /\ plan # <<>>
  /\ NextId \in CallIds
  /\ calls' = [calls EXCEPT ![NextId] = [plan[1] EXCEPT !.pc = "queued"]]
  /\ queue' = [queue EXCEPT ![plan[1].inst] = Append(@, NextId)]
  /\ plan' = Tail(plan)
  /\ UNCHANGED <<remote, wc, pending, tasks, delivered, hist, faults, globalOpts, arg, ret>>

\* the first await of the method body
FirstPc(kind) == IF kind = "land" THEN "L_fetchLatest" ELSE "I_fetchLatest"

\* a queue without a concurrency limit
MayStartAny(u) == TRUE

\* a queue that stops for good once a call of it has rejected
MayStartNoRejection(u) ==
  /\ pending[u] < Concurrency
  /\ \A id \in CallIds :
       (calls[id].inst = u /\ delivered[id] # <<>>) => delivered[id][1].status # "rejected"

\* the queue may start another call
MayStart(u) == pending[u] < Concurrency

\* the queue starts its first waiting call: the method body runs to its first await
Start(u) ==
  /\ queue[u] # <<>>
  /\ MayStart(u)
  /\ LET id == queue[u][1]
     IN  calls' = [calls EXCEPT ![id].pc = FirstPc(calls[id].kind)]
  /\ queue' = [queue EXCEPT ![u] = Tail(@)]
  /\ pending' = [pending EXCEPT ![u] = @ + 1]
  /\ UNCHANGED <<remote, wc, plan, tasks, delivered, hist, faults, globalOpts, arg, ret>>

\* a wrapper that swallows the rejection
PassThroughSwallow(result) ==
  IF result.status = "rejected" THEN [result EXCEPT !.status = "resolved", !.error = <<>>]
  ELSE result

\* what the promise queue.add returned settles with
PassThrough(result) == result

\* the method settled: the caller's promise settles and the queue moves on
Settle(id) ==
  /\ calls[id].pc = "done"
  /\ delivered' = [delivered EXCEPT ![id] = <<PassThrough(calls[id].result)>>]
  /\ calls' = [calls EXCEPT ![id].pc = "settled"]
  /\ pending' = [pending EXCEPT ![calls[id].inst] = @ - 1]
  /\ UNCHANGED <<remote, wc, plan, queue, tasks, hist, faults, globalOpts, arg, ret>>

(***************************************************************************)
(* What a mapped repo holds when it holds exactly the hub's files under    *)
(* the parentPath of each entry of its mapping, at the childPath.          *)
(***************************************************************************)
ChildView(tree, mapping) ==
  [p \in Paths |->
     IF \E k \in 1..Len(mapping) : \E q \in Paths :
          /\ IsUnder(Components(mapping[k][1]), q)
          /\ p = Components(mapping[k][2]) \o SubSeq(q, Len(Components(mapping[k][1])) + 1, Len(q))
     THEN tree[CHOOSE q \in Paths : \E k \in 1..Len(mapping) :
                 /\ IsUnder(Components(mapping[k][1]), q)
                 /\ p = Components(mapping[k][2]) \o
                        SubSeq(q, Len(Components(mapping[k][1])) + 1, Len(q))]
     ELSE 0]

(***************************************************************************)
(* The network and the remotes.  A fetch or a push that the state allows   *)
(* (can) may still fail: the network is down, the branch is protected.     *)
(* Such failures are counted, and at most MaxFaults of them happen in one  *)
(* behaviour.  A fetch or a push the state does not allow always fails.    *)
(***************************************************************************)
Outcomes(can) ==
  IF ~can THEN {FALSE} ELSE IF faults < MaxFaults THEN {TRUE, FALSE} ELSE {TRUE}

Fault(can, ok) ==
  /\ faults' = IF can /\ ~ok THEN faults + 1 ELSE faults
  /\ UNCHANGED <<globalOpts, arg, ret>>

(***************************************************************************)
(* USync.land, the method body.                                            *)
(***************************************************************************)
GitErr(at) == Err("GitError", <<>>, at)

\* prepare: await parentGit.fetchLatest()
LandFetchLatest(id) ==
  LET c == calls[id]  hub == HubOf(c)
  IN  /\ c.pc = "L_fetchLatest"
      /\ \E ok \in Outcomes(TRUE) :
           /\ Fault(TRUE, ok)
           /\ IF ok
              THEN /\ wc' = SetW(hub, FetchLatestDone(W(hub), hub, remote))
                   /\ calls' = [calls EXCEPT ![id].pc =
                                  IF IsFork(c) THEN "L_addRemote" ELSE "L_fetchHead"]
              ELSE /\ wc' = SetW(hub, FetchLatestFailed(W(hub), hub, remote))
                   /\ calls' = [calls EXCEPT ![id] = Finish(c, GitErr("fetchLatest"))]
      /\ UNCHANGED <<remote, plan, queue, pending, tasks, delivered, hist>>

\* prepare: await parentGit.addForkRemote(headRepoName)
LandAddForkRemote(id) ==
  LET c == calls[id]  hub == HubOf(c)
  IN  /\ c.pc = "L_addRemote"
      /\ IF CanRemoteAdd(W(hub), RemoteNameOf(c))
         THEN /\ wc' = SetW(hub, GitRemoteAdd(W(hub), RemoteNameOf(c), c.opts.headRepoName))
              /\ calls' = [calls EXCEPT ![id].pc = "L_fetchHead"]
              /\ hist' = [hist EXCEPT ![id].addedRemote = TRUE]
         ELSE /\ calls' = [calls EXCEPT ![id] = Finish(c, GitErr("remote add"))]
              /\ UNCHANGED <<wc, hist>>
      /\ UNCHANGED <<remote, plan, queue, pending, tasks, delivered, faults, globalOpts, arg, ret>>

\* git fetch <remote> <branch> in working copy w finds the branch
CanFetch(w, rn, b) == HasRemote(w, rn) /\ remote[RemoteRepo(w, rn)][b] # <<>>

GitFetch(w, rn, b) == SetRef(w, rn, b, remote[RemoteRepo(w, rn)][b][1])

\* prepare: await parentGit.raw(['fetch', remoteName, headBranch]); the
\* prepare block is outside the try, so a failure leaves without the finally
LandFetchHead(id) ==
  LET c == calls[id]  hub == HubOf(c)
      can == CanFetch(W(hub), RemoteNameOf(c), c.opts.headBranch)
  IN  /\ c.pc = "L_fetchHead"
      /\ \E ok \in Outcomes(can) :
           /\ Fault(can, ok)
           /\ IF ok
              THEN /\ wc' = SetW(hub, GitFetch(W(hub), RemoteNameOf(c), c.opts.headBranch))
                   /\ calls' = [calls EXCEPT ![id].pc = "L_config"]
              ELSE /\ calls' = [calls EXCEPT ![id] = Finish(c, GitErr("fetch"))]
                   /\ UNCHANGED wc
      /\ UNCHANGED <<remote, plan, queue, pending, tasks, delivered, hist>>

\* the default committish of _getConfig, HEAD
HeadCommittish(w, rn, b) == HeadCommit(w)

\* the committish land reads the configuration at: `${remoteName}/${headBranch}`
LandCommittish(w, rn, b) == Ref(w, rn, b)

\* land: config = await this._getConfig(`${remoteName}/${headBranch}`);
\* USync.validateConfig(config); then up to the await of the merge
LandConfig(id) ==
  LET c == calls[id]  hub == HubOf(c)
      config == IF HasRef(W(hub), RemoteNameOf(c), c.opts.headBranch)
                THEN GetConfig(LandCommittish(W(hub), RemoteNameOf(c), c.opts.headBranch))
                ELSE NoConfig
  IN  /\ c.pc = "L_config"
      /\ calls' = [calls EXCEPT ![id] =
           IF ValidConfig(config)
           THEN [c EXCEPT !.pc = "L_merge", !.config = config]
           ELSE EnterFinally(c, Err("USyncError", <<>>, "config"))]
      /\ UNCHANGED <<remote, wc, plan, queue, pending, tasks, delivered, hist, faults, globalOpts, arg, ret>>

\* the apply-all Promise.all: one body per entry of config.mapping, each run
\* to its first await; a repo with an empty mapping returns at once
ApplyTasks(id, config) ==
  { NewTask(id, "apply", config.mapping[k][1], "A_fetchLatest", config.mapping[k][2]) :
      k \in { j \in 1..Len(config.mapping) : config.mapping[j][2] # <<>> } }

\* land: await parentGit.raw(['merge', '--squash', ...]); then the apply-all
\* Promise.all is started
LandMerge(id) ==
  LET c == calls[id]  hub == HubOf(c)  w == W(hub)
      rn == RemoteNameOf(c)  b == c.opts.headBranch
  IN  /\ c.pc = "L_merge"
      /\ IF HasRef(w, rn, b) /\ CanMergeSquash(w, Ref(w, rn, b))
         THEN /\ wc' = SetW(hub, GitMergeSquash(w, Ref(w, rn, b)))
              /\ tasks' = tasks \cup ApplyTasks(id, c.config)
              /\ calls' = [calls EXCEPT ![id].pc =
                             IF ApplyTasks(id, c.config) = {} THEN "L_user" ELSE "L_applyWait"]
         ELSE /\ calls' = [calls EXCEPT ![id] = EnterFinally(c, GitErr("merge"))]
              /\ UNCHANGED <<wc, tasks>>
      /\ UNCHANGED <<remote, plan, queue, pending, delivered, hist, faults, globalOpts, arg, ret>>


(***************************************************************************)
(* land, the body of the apply-all Promise.all for one mapped repo.        *)
(***************************************************************************)
\* the <path> of git diff and the -p / --directory of git apply for an entry
\* that takes the patch out of fromPath and puts it under toPath
DiffDir(fromPath) == IF fromPath # <<>> THEN Components(fromPath) ELSE <<>>

\* a git apply that always takes one directory off
StripCountOne(fromPath) == IF fromPath # <<>> THEN 1 ELSE 0

StripCount(fromPath) == IF fromPath # <<>> THEN SplitLength(fromPath) ELSE 0

\* a git apply without --directory
ApplyDirNone(toPath) == <<>>

ApplyDir(toPath) == IF toPath # <<>> THEN Components(toPath) ELSE <<>>

\* await repoGit.fetchLatest(); then up to the first await of the loop
ApplyFetchLatest ==
  \E t \in tasks :
    /\ t.pc = "A_fetchLatest"
    /\ \E ok \in Outcomes(TRUE) :
         /\ Fault(TRUE, ok)
         /\ IF ok
            THEN /\ wc' = SetW(t.repo, FetchLatestDone(W(t.repo), t.repo, remote))
                 /\ TaskGoes(t, [t EXCEPT !.pc = "A_diff"], calls)
                 /\ hist' = [hist EXCEPT ![t.call].inSync =
                       IF remote[t.repo]["master"][1].tree =
                            ChildView(HeadCommit(W(HubOf(calls[t.call]))).tree, t.mapping)
                       THEN @ \cup {t.repo} ELSE @]
            ELSE /\ wc' = SetW(t.repo, FetchLatestFailed(W(t.repo), t.repo, remote))
                 /\ TaskRejects(t, GitErr("fetchLatest"), calls)
                 /\ UNCHANGED hist
    /\ UNCHANGED <<remote, plan, queue, pending, delivered>>

\* const diff = await parentGit.raw(['diff', ...diffArgs]); if (!diff) return;
ApplyDiff ==
  \E t \in tasks :
    LET hub  == HubOf(calls[t.call])
        diff == GitDiffCached(W(hub), DiffDir(t.mapping[t.i][1]))
    IN  /\ t.pc = "A_diff"
        /\ IF diff = {}
           THEN TaskResolves(t, calls)
           ELSE TaskGoes(t, [t EXCEPT !.pc = "A_apply", !.patch = diff], calls)
        /\ UNCHANGED <<remote, wc, plan, queue, pending, delivered, hist, faults, globalOpts, arg, ret>>

\* the diff piped into git apply in the mapped repo; then the next entry
ApplyPatch ==
  \E t \in tasks :
    LET w     == W(t.repo)
        strip == StripCount(t.mapping[t.i][1])
        dir   == ApplyDir(t.mapping[t.i][2])
    IN  /\ t.pc = "A_apply"
        /\ IF w.exists /\ CanApply(w, t.patch, strip, dir)
           THEN /\ wc' = SetW(t.repo, GitApply(w, t.patch, strip, dir))
                /\ IF t.i < Len(t.mapping)
                   THEN TaskGoes(t, [t EXCEPT !.pc = "A_diff", !.i = t.i + 1, !.patch = {}], calls)
                   ELSE TaskResolves(t, calls)
                /\ UNCHANGED hist
           ELSE /\ TaskRejects(t, GitErr("apply"), calls)
                /\ hist' = [hist EXCEPT ![t.call].applyFailed = @ \cup {t.repo}]
                /\ UNCHANGED wc
        /\ UNCHANGED <<remote, plan, queue, pending, delivered, faults, globalOpts, arg, ret>>

(***************************************************************************)
(* land, after the apply-all phase.                                        *)
(***************************************************************************)
RECURSIVE PutRepo(_, _, _)
\* config.mapping[repoName] = mapping
PutRepo(mapping, r, m) ==
  IF mapping = <<>> THEN << <<r, m>> >>
  ELSE IF mapping[1][1] = r THEN << <<r, m>> >> \o Tail(mapping)
       ELSE <<mapping[1]>> \o PutRepo(Tail(mapping), r, m)

\* the dummy mapping {'': ''} of the parent repo
DummyMapping == << <<<<>>, <<>>>> >>

\* a loop that leaves after its first entry
CommitTasksFirst(id, mapping) ==
  { NewTask(id, "commit", mapping[1][1], "C_clean", mapping[1][2]) }

CommitTasks(id, mapping) ==
  { NewTask(id, "commit", mapping[k][1], "C_clean", mapping[k][2]) : k \in 1..Len(mapping) }

\* const globalUser = await git.getGlobalUser(); the parent repo is added to
\* config.mapping and the commit-and-push Promise.all is started
LandGlobalUser(id) ==
  LET c == calls[id]
      mapping == PutRepo(c.config.mapping, HubOf(c), DummyMapping)
  IN  /\ c.pc = "L_user"
      /\ calls' = [calls EXCEPT ![id].pc = "L_commitWait", ![id].config.mapping = mapping]
      /\ tasks' = tasks \cup CommitTasks(id, mapping)
      /\ hist' = [hist EXCEPT ![id].mapped = { mapping[k][1] : k \in 1..Len(mapping) }]
      /\ UNCHANGED <<remote, wc, plan, queue, pending, delivered, faults, globalOpts, arg, ret>>

\* if (await repoGit.workdirIsClean()) return;
CommitCheckClean ==
  \E t \in tasks :
    LET w == W(t.repo)
    IN  /\ t.pc = "C_clean"
        /\ IF ~w.exists
           THEN /\ TaskRejects(t, GitErr("status"), calls)
                /\ UNCHANGED hist
           ELSE IF WorkdirIsClean(w)
           THEN /\ TaskResolves(t, calls)
                /\ hist' = [hist EXCEPT ![t.call].clean = @ \cup {t.repo}]
           ELSE /\ TaskGoes(t, [t EXCEPT !.pc = "C_meta"], calls)
                /\ hist' = [hist EXCEPT ![t.call].dirty = @ \cup {t.repo}]
        /\ UNCHANGED <<remote, wc, plan, queue, pending, delivered, faults, globalOpts, arg, ret>>

\* a git log without path arguments
LogPathsNone(mapping, side) == <<>>

\* the non-empty paths of one side of a mapping, as git log path arguments
LogPaths(mapping, side) ==
  LET ne == SelectSeq(mapping, LAMBDA e : e[side] # <<>>)
  IN  [k \in 1..Len(ne) |-> Components(ne[k][side])]

\* a land that knows the generic message only
MessageForGeneric(opts, r) == opts.generic

\* commitMessages[repoName] || commitMessages.generic
MessageFor(opts, r) ==
  IF \E m \in opts.perRepo : m[1] = r /\ m[2] # ""
  THEN (CHOOSE m \in opts.perRepo : m[1] = r)[2]
  ELSE opts.generic

\* commitAuthor = (await parentGit.log(logArgs, ...))[0].author and
\* commitMessage = await parentGit.getLogAuthors(logArgs).then(...)
CommitMeta ==
  \E t \in tasks :
    LET c  == calls[t.call]
        w  == W(HubOf(c))
        rn == RemoteNameOf(c)
        b  == c.opts.headBranch
        commits == GitLogRightOnly(w, Ref(w, rn, b), LogPaths(t.mapping, 1))
    IN  /\ t.pc = "C_meta"
        /\ IF ~HasRef(w, rn, b)
           THEN TaskRejects(t, GitErr("log"), calls)
           ELSE IF commits = <<>>
           THEN TaskRejects(t, Err("TypeError", <<>>, "commits[0].author"), calls)
           ELSE TaskGoes(t, [t EXCEPT !.pc = "C_add",
                                      !.author = commits[1].author,
                                      !.msg = BuildMessage(MessageFor(c.opts, t.repo),
                                                           GetLogAuthors(commits),
                                                           commits[1].author, GetGlobalUser)],
                         calls)
        /\ hist' = IF HasRef(w, rn, b) /\ commits # <<>>
                   THEN [hist EXCEPT ![t.call].ranges = @ \cup {<<t.repo, commits>>}]
                   ELSE hist
        /\ UNCHANGED <<remote, wc, plan, queue, pending, delivered, faults, globalOpts, arg, ret>>

\* await repoGit.raw(['add', '--all']);
CommitAdd ==
  \E t \in tasks :
    /\ t.pc = "C_add"
    /\ wc' = SetW(t.repo, GitAddAll(W(t.repo)))
    /\ TaskGoes(t, [t EXCEPT !.pc = "C_commit"], calls)
    /\ UNCHANGED <<remote, plan, queue, pending, delivered, hist, faults, globalOpts, arg, ret>>

\* await repoGit.raw(['commit', `--author=...`, `--message=...`]);
CommitCommit ==
  \E t \in tasks :
    LET w == W(t.repo)
    IN  /\ t.pc = "C_commit"
        /\ IF CanCommit(w)
           THEN /\ wc' = SetW(t.repo, GitCommit(w, t.author, t.msg))
                /\ hist' = [hist EXCEPT ![t.call].committed =
                              @ \cup {<<t.repo, HeadCommit(GitCommit(w, t.author, t.msg))>>}]
                /\ TaskGoes(t, [t EXCEPT !.pc = "C_push"], calls)
           ELSE /\ TaskRejects(t, GitErr("commit"), calls)
                /\ UNCHANGED <<wc, hist>>
        /\ UNCHANGED <<remote, plan, queue, pending, delivered, faults, globalOpts, arg, ret>>

\* try { await repoGit.raw(['push']); landedRepos[repoName] = {sha: ...} }
\* catch (e) { failedPushRepos.push(repoName) }
CommitPush ==
  \E t \in tasks :
    LET w == W(t.repo)
        can == w.branch = "master" /\ CanPush(remote[w.origin], "master", HeadCommit(w))
        cs(ok) == IF ~Awaited(t, calls) THEN calls
                  ELSE IF ok THEN [calls EXCEPT ![t.call].landed = @ \cup {<<t.repo, HeadCommit(w)>>}]
                  ELSE [calls EXCEPT ![t.call].failed = Append(@, t.repo)]
    IN  /\ t.pc = "C_push"
        /\ \E ok \in Outcomes(can) :
             /\ Fault(can, ok)
             /\ IF ok
                THEN /\ remote' = [remote EXCEPT ![w.origin] = PushTo(@, "master", HeadCommit(w))]
                     /\ wc' = SetW(t.repo, SetRef(w, Origin, "master", HeadCommit(w)))
                     /\ hist' = [hist EXCEPT ![t.call].pushTried = @ \cup {t.repo},
                                             ![t.call].pushed = @ \cup {<<t.repo, HeadCommit(w)>>}]
                     /\ TaskResolves(t, cs(TRUE))
                ELSE /\ hist' = [hist EXCEPT ![t.call].pushTried = @ \cup {t.repo},
                                             ![t.call].strayPush =
                                                IF Awaited(t, calls) THEN @ ELSE @ \cup {t.repo}]
                     /\ TaskResolves(t, cs(FALSE))
                     /\ UNCHANGED <<remote, wc>>
        /\ UNCHANGED <<plan, queue, pending, delivered>>

\* await repoGit.raw(['checkout', '-b', fallbackBranch]);
FallbackCheckout ==
  \E t \in tasks :
    LET w == W(t.repo)  fb == calls[t.call].opts.fallbackBranch
    IN  /\ t.pc = "F_checkout"
        /\ IF CanCheckoutNew(w, fb)
           THEN /\ wc' = SetW(t.repo, GitCheckoutNew(w, fb))
                /\ TaskGoes(t, [t EXCEPT !.pc = "F_push"], calls)
                /\ UNCHANGED hist
           ELSE /\ TaskRejects(t, GitErr("checkout -b"), calls)
                /\ hist' = [hist EXCEPT ![t.call].fallbackFailed = @ \cup {t.repo}]
                /\ UNCHANGED wc
        /\ UNCHANGED <<remote, plan, queue, pending, delivered, faults, globalOpts, arg, ret>>

\* await repoGit.raw(['push', 'origin', fallbackBranch]);
FallbackPush ==
  \E t \in tasks :
    LET w == W(t.repo)  fb == calls[t.call].opts.fallbackBranch
        can == w.heads[fb] # <<>> /\ CanPush(remote[w.origin], fb, w.heads[fb][1])
    IN  /\ t.pc = "F_push"
        /\ \E ok \in Outcomes(can) :
             /\ Fault(can, ok)
             /\ IF ok
                THEN /\ remote' = [remote EXCEPT ![w.origin] = PushTo(@, fb, w.heads[fb][1])]
                     /\ wc' = SetW(t.repo, SetRef(w, Origin, fb, w.heads[fb][1]))
                     /\ hist' = [hist EXCEPT ![t.call].fallback = @ \cup {<<t.repo, w.heads[fb][1]>>}]
                     /\ TaskResolves(t, calls)
                ELSE /\ TaskRejects(t, GitErr("push fallback"), calls)
                     /\ hist' = [hist EXCEPT ![t.call].fallbackFailed = @ \cup {t.repo}]
                     /\ UNCHANGED <<remote, wc>>
        /\ UNCHANGED <<plan, queue, pending, delivered>>

\* finally { if (isFork) await parentGit.removeForkRemote(headRepoName); }
LandCleanup(id) ==
  LET c == calls[id]  hub == HubOf(c)
  IN  /\ c.pc = "L_cleanup"
      /\ IF CanRemoteRemove(W(hub), RemoteNameOf(c))
         THEN /\ wc' = SetW(hub, GitRemoteRemove(W(hub), RemoteNameOf(c)))
              /\ calls' = [calls EXCEPT ![id] = Finish(c, c.err)]
         ELSE /\ calls' = [calls EXCEPT ![id] = Finish(c, GitErr("remote remove"))]
              /\ UNCHANGED wc
      /\ UNCHANGED <<remote, plan, queue, pending, tasks, delivered, hist, faults, globalOpts, arg, ret>>


(***************************************************************************)
(* USync.import, the method body.  There is no try/finally: a failure      *)
(* leaves the method where it happens.                                     *)
(***************************************************************************)
BaseOf(c) == c.opts.baseRepoName

\* import: await parentGit.fetchLatest();
ImportFetchLatest(id) ==
  LET c == calls[id]  hub == HubOf(c)
  IN  /\ c.pc = "I_fetchLatest"
      /\ \E ok \in Outcomes(TRUE) :
           /\ Fault(TRUE, ok)
           /\ IF ok
              THEN /\ wc' = SetW(hub, FetchLatestDone(W(hub), hub, remote))
                   /\ calls' = [calls EXCEPT ![id].pc = "I_config"]
              ELSE /\ wc' = SetW(hub, FetchLatestFailed(W(hub), hub, remote))
                   /\ calls' = [calls EXCEPT ![id] = Finish(c, GitErr("fetchLatest"))]
      /\ UNCHANGED <<remote, plan, queue, pending, tasks, delivered, hist>>

\* the two bodies of the prepare Promise.all, each up to its first await
PrepareTasks(id, c) ==
  { NewTask(id, "prepare", HubOf(c), "P_hubFetch", <<>>),
    NewTask(id, "prepare", BaseOf(c), "P_fetchLatest", <<>>) }

\* a check that lets every repo pass
HasMappingForAny(config, r) == TRUE

\* config.mapping[baseRepoName] && Object.keys(config.mapping[baseRepoName]).length
HasMappingFor(config, r) == MappingOf(config, r) # <<>>

\* config = await this._getConfig(); USync.validateConfig(config); the check
\* of config.mapping[baseRepoName]; then the prepare Promise.all is started
ImportConfig(id) ==
  LET c == calls[id]
      config == GetConfig(HeadCommit(W(HubOf(c))))
  IN  /\ c.pc = "I_config"
      /\ IF ~ValidConfig(config)
         THEN /\ calls' = [calls EXCEPT ![id] = Finish(c, Err("USyncError", <<>>, "config"))]
              /\ UNCHANGED tasks
         ELSE IF ~HasMappingFor(config, BaseOf(c))
         THEN /\ calls' = [calls EXCEPT ![id] = Finish(c, Err("USyncError", <<>>, "mapping"))]
              /\ UNCHANGED tasks
         ELSE /\ calls' = [calls EXCEPT ![id].pc = "I_prepareWait", ![id].config = config]
              /\ tasks' = tasks \cup PrepareTasks(id, c)
      /\ UNCHANGED <<remote, wc, plan, queue, pending, delivered, hist, faults, globalOpts, arg, ret>>

\* prepare: parentGit.fetchLatest() and await childGit.fetchLatest()
PrepFetchLatest ==
  \E t \in tasks :
    LET c == calls[t.call]
    IN  /\ t.pc \in {"P_hubFetch", "P_fetchLatest"}
        /\ \E ok \in Outcomes(TRUE) :
             /\ Fault(TRUE, ok)
             /\ IF ok
                THEN /\ wc' = SetW(t.repo, FetchLatestDone(W(t.repo), t.repo, remote))
                     /\ IF t.pc = "P_hubFetch"
                        THEN TaskResolves(t, calls)
                        ELSE TaskGoes(t, [t EXCEPT !.pc = IF IsFork(c) THEN "P_addRemote"
                                                          ELSE "P_fetchHead"], calls)
                ELSE /\ wc' = SetW(t.repo, FetchLatestFailed(W(t.repo), t.repo, remote))
                     /\ TaskRejects(t, GitErr("fetchLatest"), calls)
        /\ UNCHANGED <<remote, plan, queue, pending, delivered, hist>>

\* prepare: if (isFork) await childGit.addForkRemote(headRepoName);
PrepAddForkRemote ==
  \E t \in tasks :
    LET c == calls[t.call]  w == W(t.repo)
    IN  /\ t.pc = "P_addRemote"
        /\ IF CanRemoteAdd(w, RemoteNameOf(c))
           THEN /\ wc' = SetW(t.repo, GitRemoteAdd(w, RemoteNameOf(c), c.opts.headRepoName))
                /\ hist' = [hist EXCEPT ![t.call].addedRemote = TRUE]
                /\ TaskGoes(t, [t EXCEPT !.pc = "P_fetchHead"], calls)
           ELSE /\ TaskRejects(t, GitErr("remote add"), calls)
                /\ UNCHANGED <<wc, hist>>
        /\ UNCHANGED <<remote, plan, queue, pending, delivered, faults, globalOpts, arg, ret>>

\* prepare: await childGit.raw(['fetch', remoteName, headBranch]);
PrepFetchHead ==
  \E t \in tasks :
    LET c == calls[t.call]  w == W(t.repo)
        can == CanFetch(w, RemoteNameOf(c), c.opts.headBranch)
    IN  /\ t.pc = "P_fetchHead"
        /\ \E ok \in Outcomes(can) :
             /\ Fault(can, ok)
             /\ IF ok
                THEN /\ wc' = SetW(t.repo, GitFetch(w, RemoteNameOf(c), c.opts.headBranch))
                     /\ TaskResolves(t, calls)
                ELSE /\ TaskRejects(t, GitErr("fetch"), calls)
                     /\ UNCHANGED wc
        /\ UNCHANGED <<remote, plan, queue, pending, delivered, hist>>

\* [globalUser, commitAuthor] = await Promise.all([git.getGlobalUser(),
\* childGit.log(logArgs, ...).then(commits => commits[0].author)]) and
\* commitMessage = await childGit.getLogAuthors(logArgs).then(...)
ImportMeta(id) ==
  LET c  == calls[id]
      w  == W(BaseOf(c))
      rn == RemoteNameOf(c)
      b  == c.opts.headBranch
      commits == GitLogRightOnly(w, Ref(w, rn, b), LogPaths(MappingOf(c.config, BaseOf(c)), 2))
      msg == BuildMessage(c.opts.message, GetLogAuthors(commits), commits[1].author,
                          GetGlobalUser)
  IN  /\ c.pc = "I_meta"
      /\ IF commits = <<>>
         THEN /\ calls' = [calls EXCEPT ![id] =
                             Finish(c, Err("TypeError", <<>>, "commits[0].author"))]
              /\ UNCHANGED hist
         ELSE /\ calls' = [calls EXCEPT ![id].pc = "I_merge",
                                        ![id].author = commits[1].author,
                                        ![id].msg = msg]
              /\ hist' = [hist EXCEPT ![id].meta = <<commits[1].author, msg>>,
                                      ![id].ranges = {<<HubOf(c), commits>>}]
      /\ UNCHANGED <<remote, wc, plan, queue, pending, tasks, delivered, faults, globalOpts, arg, ret>>

\* await childGit.raw(['merge', '--squash', `${remoteName}/${headBranch}`]);
ImportMerge(id) ==
  LET c == calls[id]  w == W(BaseOf(c))
      theirs == Ref(w, RemoteNameOf(c), c.opts.headBranch)
  IN  /\ c.pc = "I_merge"
      /\ IF CanMergeSquash(w, theirs)
         THEN /\ wc' = SetW(BaseOf(c), GitMergeSquash(w, theirs))
              /\ calls' = [calls EXCEPT ![id].pc = "I_branch"]
              /\ hist' = [hist EXCEPT ![id].source = <<theirs>>,
                                      ![id].ontoChild = <<HeadCommit(w)>>]
         ELSE /\ calls' = [calls EXCEPT ![id] = Finish(c, GitErr("merge"))]
              /\ UNCHANGED <<wc, hist>>
      /\ UNCHANGED <<remote, plan, queue, pending, tasks, delivered, faults, globalOpts, arg, ret>>

\* await parentGit.raw(['checkout', '-b', newBranch]); then the loop over
\* Object.entries(mapping) up to its first await
ImportBranch(id) ==
  LET c == calls[id]  w == W(HubOf(c))
  IN  /\ c.pc = "I_branch"
      /\ IF CanCheckoutNew(w, c.opts.newBranch)
         THEN /\ wc' = SetW(HubOf(c), GitCheckoutNew(w, c.opts.newBranch))
              /\ calls' = [calls EXCEPT ![id].pc = "I_diff", ![id].i = 1]
              /\ hist' = [hist EXCEPT ![id].onto = <<HeadCommit(w)>>]
         ELSE /\ calls' = [calls EXCEPT ![id] = Finish(c, GitErr("checkout -b"))]
              /\ UNCHANGED <<wc, hist>>
      /\ UNCHANGED <<remote, plan, queue, pending, tasks, delivered, faults, globalOpts, arg, ret>>

\* const diff = await childGit.raw(['diff', ...diffArgs]); if (!diff) return;
ImportDiff(id) ==
  LET c == calls[id]
      mapping == MappingOf(c.config, BaseOf(c))
      diff == GitDiffCached(W(BaseOf(c)), DiffDir(mapping[c.i][2]))
  IN  /\ c.pc = "I_diff"
      /\ calls' = [calls EXCEPT ![id] =
           IF diff = {} THEN Finish(c, NoErr)
           ELSE [c EXCEPT !.pc = "I_apply", !.patch = diff]]
      /\ UNCHANGED <<remote, wc, plan, queue, pending, tasks, delivered, hist, faults, globalOpts, arg, ret>>

\* the diff piped into git apply in the parent repo; then the next entry,
\* or after the last one up to the await of git add
ImportApply(id) ==
  LET c == calls[id]  w == W(HubOf(c))
      mapping == MappingOf(c.config, BaseOf(c))
      strip == StripCount(mapping[c.i][2])
      dir   == ApplyDir(mapping[c.i][1])
  IN  /\ c.pc = "I_apply"
      /\ IF CanApply(w, c.patch, strip, dir)
         THEN /\ wc' = SetW(HubOf(c), GitApply(w, c.patch, strip, dir))
              /\ calls' = [calls EXCEPT ![id] =
                   IF c.i < Len(mapping)
                   THEN [c EXCEPT !.pc = "I_diff", !.i = c.i + 1, !.patch = {}]
                   ELSE [c EXCEPT !.pc = "I_add", !.patch = {}]]
              /\ UNCHANGED hist
         ELSE /\ calls' = [calls EXCEPT ![id] = Finish(c, GitErr("apply"))]
              /\ hist' = [hist EXCEPT ![id].applyFailed = @ \cup {HubOf(c)}]
              /\ UNCHANGED wc
      /\ UNCHANGED <<remote, plan, queue, pending, tasks, delivered, faults, globalOpts, arg, ret>>

\* await parentGit.raw(['add', '--all']);
ImportAdd(id) ==
  LET c == calls[id]
  IN  /\ c.pc = "I_add"
      /\ wc' = SetW(HubOf(c), GitAddAll(W(HubOf(c))))
      /\ calls' = [calls EXCEPT ![id].pc = "I_commit"]
      /\ UNCHANGED <<remote, plan, queue, pending, tasks, delivered, hist, faults, globalOpts, arg, ret>>

\* await parentGit.raw(['commit', `--author=...`, `--message=...`]);
ImportCommit(id) ==
  LET c == calls[id]  w == W(HubOf(c))
  IN  /\ c.pc = "I_commit"
      /\ IF CanCommit(w)
         THEN /\ wc' = SetW(HubOf(c), GitCommit(w, c.author, c.msg))
              /\ calls' = [calls EXCEPT ![id].pc = "I_push"]
              /\ hist' = [hist EXCEPT ![id].committed =
                            @ \cup {<<HubOf(c), HeadCommit(GitCommit(w, c.author, c.msg))>>}]
         ELSE /\ calls' = [calls EXCEPT ![id] = Finish(c, GitErr("commit"))]
              /\ UNCHANGED <<wc, hist>>
      /\ UNCHANGED <<remote, plan, queue, pending, tasks, delivered, faults, globalOpts, arg, ret>>

\* await parentGit.raw(['push', '--force', 'origin', newBranch]); then the
\* cleanup Promise.all is started
ImportPush(id) ==
  LET c == calls[id]  w == W(HubOf(c))  nb == c.opts.newBranch
      can == w.heads[nb] # <<>>
  IN  /\ c.pc = "I_push"
      /\ \E ok \in Outcomes(can) :
           /\ Fault(can, ok)
           /\ IF ok
              THEN /\ remote' = [remote EXCEPT ![w.origin] = PushTo(@, nb, w.heads[nb][1])]
                   /\ wc' = SetW(HubOf(c), SetRef(w, Origin, nb, w.heads[nb][1]))
                   /\ hist' = [hist EXCEPT ![id].branchPushed = <<w.heads[nb][1]>>]
                   /\ calls' = [calls EXCEPT ![id].pc = "I_cleanupWait"]
                   /\ tasks' = tasks \cup CleanupTasks(id, c)
              ELSE /\ calls' = [calls EXCEPT ![id] = Finish(c, GitErr("push"))]
                   /\ UNCHANGED <<remote, wc, hist, tasks>>
      /\ UNCHANGED <<plan, queue, pending, delivered>>

\* cleanup: await parentGit.raw(['checkout', 'master']);
CleanupCheckout ==
  \E t \in tasks :
    /\ t.pc = "K_checkout"
    /\ wc' = SetW(t.repo, GitCheckout(W(t.repo), "master"))
    /\ TaskGoes(t, [t EXCEPT !.pc = "K_branchD"], calls)
    /\ UNCHANGED <<remote, plan, queue, pending, delivered, hist, faults, globalOpts, arg, ret>>

\* cleanup: await parentGit.raw(['branch', '-D', newBranch]);
CleanupBranchDelete ==
  \E t \in tasks :
    /\ t.pc = "K_branchD"
    /\ IF CanBranchDelete(W(t.repo), calls[t.call].opts.newBranch)
       THEN /\ wc' = SetW(t.repo, GitBranchDelete(W(t.repo), calls[t.call].opts.newBranch))
            /\ TaskResolves(t, calls)
       ELSE /\ TaskRejects(t, GitErr("branch -D"), calls)
            /\ UNCHANGED wc
    /\ UNCHANGED <<remote, plan, queue, pending, delivered, hist, faults, globalOpts, arg, ret>>

\* cleanup: await childGit.raw(['reset', '--hard', 'HEAD']);
CleanupReset ==
  \E t \in tasks :
    /\ t.pc = "K_reset"
    /\ wc' = SetW(t.repo, GitResetHard(W(t.repo), HeadCommit(W(t.repo))))
    /\ IF IsFork(calls[t.call])
       THEN TaskGoes(t, [t EXCEPT !.pc = "K_removeRemote"], calls)
       ELSE TaskResolves(t, calls)
    /\ UNCHANGED <<remote, plan, queue, pending, delivered, hist, faults, globalOpts, arg, ret>>

\* cleanup: if (isFork) await childGit.removeForkRemote(headRepoName);
CleanupRemoveForkRemote ==
  \E t \in tasks :
    LET w == W(t.repo)  rn == RemoteNameOf(calls[t.call])
    IN  /\ t.pc = "K_removeRemote"
        /\ IF CanRemoteRemove(w, rn)
           THEN /\ wc' = SetW(t.repo, GitRemoteRemove(w, rn))
                /\ TaskResolves(t, calls)
           ELSE /\ TaskRejects(t, GitErr("remote remove"), calls)
                /\ UNCHANGED wc
        /\ UNCHANGED <<remote, plan, queue, pending, delivered, hist, faults, globalOpts, arg, ret>>


(***************************************************************************)
(* The next-state relation.                                                *)
(***************************************************************************)
NextQueue ==
  \/ Submit
  \/ \E u \in Instances : Start(u)
  \/ \E id \in CallIds : Settle(id)

NextLand ==
  \/ \E id \in CallIds : LandFetchLatest(id)
  \/ \E id \in CallIds : LandAddForkRemote(id)
  \/ \E id \in CallIds : LandFetchHead(id)
  \/ \E id \in CallIds : LandConfig(id)
  \/ \E id \in CallIds : LandMerge(id)
  \/ \E id \in CallIds : LandGlobalUser(id)
  \/ \E id \in CallIds : LandCleanup(id)
  \/ ApplyFetchLatest
  \/ ApplyDiff
  \/ ApplyPatch
  \/ CommitCheckClean
  \/ CommitMeta
  \/ CommitAdd
  \/ CommitCommit
  \/ CommitPush
  \/ FallbackCheckout
  \/ FallbackPush

NextImport ==
  \/ \E id \in CallIds : ImportFetchLatest(id)
  \/ \E id \in CallIds : ImportConfig(id)
  \/ \E id \in CallIds : ImportMeta(id)
  \/ \E id \in CallIds : ImportMerge(id)
  \/ \E id \in CallIds : ImportBranch(id)
  \/ \E id \in CallIds : ImportDiff(id)
  \/ \E id \in CallIds : ImportApply(id)
  \/ \E id \in CallIds : ImportAdd(id)
  \/ \E id \in CallIds : ImportCommit(id)
  \/ \E id \in CallIds : ImportPush(id)
  \/ PrepFetchLatest
  \/ PrepAddForkRemote
  \/ PrepFetchHead
  \/ CleanupCheckout
  \/ CleanupBranchDelete
  \/ CleanupReset
  \/ CleanupRemoveForkRemote

Next == NextQueue \/ NextLand \/ NextImport

\* any calls, in any order
Spec == Init /\ [][Next]_vars

\* two calls, one after another; every git command comes to an end and
\* every continuation that is ready to run is run
InitLive == InitWith({ <<c, d>> : c \in QueueCalls, d \in QueueCalls }, {Remote0})

SpecLive == InitLive /\ [][Next]_vars /\ WF_vars(Next)

\* land calls only, one after another
InitLand == InitWith({ <<c, d>> : c \in LandCalls, d \in LandCalls }, {Remote0})

SpecLand == InitLand /\ [][NextQueue \/ NextLand]_vars

\* import calls only, one after another, whatever the masters of the hub
\* and the child are
InitImport == InitWith({ <<c, d>> : c \in ImportCalls, d \in ImportCalls }, Remotes)

SpecImport == InitImport /\ [][NextQueue \/ NextImport]_vars

\* lands of the branch that moves files across the mapped subdirectory, of
\* the branch that changes the mapping, and of a branch of a fork, with
\* commit messages of their own for some repos
LandChangeCalls ==
  { NewCall("usync1", "land", LandOpts("m", NoRepo, {<<RepoA, "Add file">>, <<Hub, "">>})),
    NewCall("usync1", "land", LandOpts("c", NoRepo, {})),
    NewCall("usync1", "land", LandOpts("x", HubFork, {<<Hub, "Land in hub">>})) }

InitLandChange ==
  InitWith({ <<c, d>> : c \in LandChangeCalls, d \in LandChangeCalls }, {Remote0})

SpecLandChange == InitLandChange /\ [][NextQueue \/ NextLand]_vars

\* lands of the branch whose mapping has two entries for one repo, and of a
\* branch of a fork
LandEntriesCalls ==
  { NewCall("usync1", "land", LandOpts("d", NoRepo, {})),
    NewCall("usync1", "land", LandOpts("x", HubFork, {})) }

InitLandEntries ==
  InitWith({ <<c, d>> : c \in LandEntriesCalls, d \in LandEntriesCalls }, {Remote0})

SpecLandEntries == InitLandEntries /\ [][NextQueue \/ NextLand]_vars

\* lands of the branches without a readable configuration and imports into
\* hubs whose master has none, next to a land and an import from a fork
ConfigCalls ==
  QueueCalls
  \cup { NewCall("usync1", "land", LandOpts(b, NoRepo, {})) : b \in {"e", "u"} }

InitConfig ==
  InitWith({ <<c, d>> : c \in ConfigCalls, d \in ConfigCalls },
           { RemoteWith(h, ChildMaster0) : h \in {HubMaster0, HubE, HubU} })

SpecConfig == InitConfig /\ [][Next]_vars

\* lands of the branch whose configuration lists the hub itself, of a branch
\* that changes a file no repo is mapped to, and of a branch of a fork
LandHubCalls ==
  { NewCall("usync1", "land", LandOpts("h", NoRepo, {})),
    NewCall("usync1", "land", LandOpts("z", NoRepo, {})),
    NewCall("usync1", "land", LandOpts("x", HubFork, {})) }

InitLandHub ==
  InitWith({ <<c, d>> : c \in LandHubCalls, d \in LandHubCalls }, {Remote0})

SpecLandHub == InitLandHub /\ [][NextQueue \/ NextLand]_vars

\* lands of the branch whose configuration gives a repo an empty mapping, of
\* a branch that changes what that repo was mapped to, and of a branch of a fork
LandEmptyCalls ==
  { NewCall("usync1", "land", LandOpts("p", NoRepo, {})),
    NewCall("usync1", "land", LandOpts("y", NoRepo, {})),
    NewCall("usync1", "land", LandOpts("x", HubFork, {})) }

InitLandEmpty ==
  InitWith({ <<c, d>> : c \in LandEmptyCalls, d \in LandEmptyCalls }, {Remote0})

SpecLandEmpty == InitLandEmpty /\ [][NextQueue \/ NextLand]_vars

\* a land and an import of the branches the operator alone has authored,
\* next to a land and an import from a fork
OperatorCalls ==
  QueueCalls
  \cup { NewCall("usync1", "land", LandOpts("o", NoRepo, {<<RepoA, "Add b">>})),
         NewCall("usync1", "import", ImportOpts(RepoA, NoRepo, "o")) }

InitOperator ==
  InitWith({ <<c, d>> : c \in OperatorCalls, d \in OperatorCalls }, {Remote0})

SpecOperator == InitOperator /\ [][Next]_vars

\* imports into hubs whose configuration maps RepoB (to lib), leaves it out,
\* or gives it an empty mapping; AFork is in no configuration
HubMasterLeftOut == Change(HubMaster0, Operator, "leave RepoB out", {<<CfgPath, 2>>})
HubMasterEmpty   == Change(HubMaster0, Operator, "empty RepoB", {<<CfgPath, 3>>})

ImportMappingCalls ==
  ImportCalls
  \cup { NewCall("usync1", "import", ImportOpts(RepoB, NoRepo, "master")),
         NewCall("usync1", "import", ImportOpts(AFork, NoRepo, "x")) }

InitImportMapping ==
  InitWith({ <<c, d>> : c \in ImportMappingCalls, d \in ImportMappingCalls },
           { RemoteWith(h, ChildMaster0) : h \in {HubMaster0, HubMasterLeftOut, HubMasterEmpty} })

SpecImportMapping == InitImportMapping /\ [][NextQueue \/ NextImport]_vars

\* two USync instances of the same hub in one process, an import on each; no
\* fetch or push fails but those the state of the repositories makes fail
TwoPlans ==
  { <<NewCall("usync1", "import", ImportOpts(RepoA, AFork, "x")),
      NewCall("usync2", "import", ImportOpts(RepoA, NoRepo, b))>> : b \in {"x", "n"} }

InitTwo ==
  /\ remote = Remote0
  /\ wc = [l \in LocalPaths |-> NoClone]
  /\ plan \in TwoPlans
  /\ queue = [u \in Instances |-> <<>>]
  /\ pending = [u \in Instances |-> 0]
  /\ calls = [id \in CallIds |-> NewCall("usync1", "none", LandOpts("x", NoRepo, {}))]
  /\ tasks = {}
  /\ delivered = [id \in CallIds |-> <<>>]
  /\ hist = [id \in CallIds |-> NoHist]
  /\ faults = MaxFaults
  /\ globalOpts = DefaultOpts
  /\ arg = <<>>
  /\ ret = <<>>

SpecTwo == InitTwo /\ [][NextQueue \/ NextImport]_vars

(***************************************************************************)
(* USync.validateConfig and Git.configure on their own: the argument is    *)
(* drawn from a set of values, the call is made, and what it did is kept.  *)
(***************************************************************************)
\* the objects over the given keys and values, a key at most once
ObjectsOver(keys, values) ==
  { JsObject(f) : f \in { g \in SUBSET (keys \X values) :
                            \A d \in g, e \in g : d[1] = e[1] => d = e } }

\* the values of config.mapping[repoName]: hub directories mapped to the
\* root of the repo or to a directory of it
MappingEntries ==
  ObjectsOver({"/subdir", "/other-subdir"}, {JsString("/"), JsString("/child-subdir")})

\* what JSON.parse can give, or a caller can pass, as the configuration
ConfigValues ==
  { JsUndefined, JsNull, JsObject({}) }
  \cup { JsObject({<<"mapping", m>>}) :
           m \in {JsNull, JsString("/"), JsNumber("0")}
                 \cup ObjectsOver({RepoA, RepoB}, MappingEntries) }

InitArg(args) ==
  /\ remote = Remote0
  /\ wc = [l \in LocalPaths |-> NoClone]
  /\ plan = <<>>
  /\ queue = [u \in Instances |-> <<>>]
  /\ pending = [u \in Instances |-> 0]
  /\ calls = [id \in CallIds |-> NewCall("usync1", "none", LandOpts("x", NoRepo, {}))]
  /\ tasks = {}
  /\ delivered = [id \in CallIds |-> <<>>]
  /\ hist = [id \in CallIds |-> NoHist]
  /\ faults = 0
  /\ globalOpts = DefaultOpts
  /\ arg \in args
  /\ ret = <<>>

\* USync.validateConfig(arg)
ValidateConfig ==
  /\ ret = <<>>
  /\ ret' = <<IF ValidateConfigThrows(arg) THEN "USyncError" ELSE "returned">>
  /\ UNCHANGED <<remote, wc, plan, queue, pending, calls, tasks, delivered, hist,
                 faults, globalOpts, arg>>

SpecValidate == InitArg(ConfigValues) /\ [][ValidateConfig]_vars

\* the paths a .usyncrc.json may spell: separators and directory names,
\* no two names without a separator between them
MaxPathLen == 4

RawPaths ==
  { s \in SeqsUpTo({"/", "sub", "lib"}, MaxPathLen) :
      \A i \in 1..(Len(s) - 1) : s[i] = "/" \/ s[i + 1] = "/" }

\* the mappings of one repo, as JSON.parse gives them: one entry, or the
\* entry after an entry for sub
RawMappings ==
  { << <<p, c>> >> : p \in RawPaths, c \in {<<"/">>, <<"/", "lib", "/">>, <<"/", "/">>} }
  \cup { << <<<<"/", "sub">>, <<"/">>>>, <<p, <<"/", "lib">>>> >> :
           p \in {<<"sub", "/">>, <<"/", "sub", "/">>, <<"lib">>} }

\* _getConfig, the normalization of config.mapping[repoName]
Normalize ==
  /\ ret = <<>>
  /\ ret' = <<NormalizeMapping(arg, <<>>)>>
  /\ UNCHANGED <<remote, wc, plan, queue, pending, calls, tasks, delivered, hist,
                 faults, globalOpts, arg>>

SpecNormalize == InitArg(RawMappings) /\ [][Normalize]_vars

\* the mapping loops of land and import for one entry, on their own: the
\* staged change of the source working copy is diffed under the entry's
\* source path and applied to the target working copy.
\* The source holds the a files (b files are absent) and stages a change of
\* the given files: an absent file is added, a file is changed or deleted.
TranslateBase == [p \in Paths |-> IF p[Len(p)] = "b" THEN 0 ELSE 1]

Staged(changed, delete) ==
  [p \in Paths |-> IF p \notin changed THEN TranslateBase[p]
                   ELSE IF TranslateBase[p] = 0 THEN 1
                   ELSE IF delete THEN 0 ELSE 2]

SourceCopy(changed, delete) ==
  [NoClone EXCEPT !.exists = TRUE,
                  !.heads["master"] = <<MkCommit(TranslateBase, Operator, InitMsg, <<>>)>>,
                  !.index = Staged(changed, delete),
                  !.work = Staged(changed, delete)]

TargetCopy ==
  [NoClone EXCEPT !.exists = TRUE,
                  !.heads["master"] = <<MkCommit(TranslateBase, Operator, InitMsg, <<>>)>>,
                  !.index = TranslateBase,
                  !.work = TranslateBase]

\* the entries <<parentPath, childPath>>, normalized: flat and nested paths
\* and the root on either side
TranslateEntries ==
  { <<<<"sub">>, <<>>>>, <<<<"sub", "/", "deep">>, <<>>>>,
    <<<<"sub", "/", "deep">>, <<"lib">>>>, <<<<"sub", "/", "deep">>, <<"deep">>>>,
    <<<<"sub">>, <<"lib">>>>, <<<<>>, <<>>>>, <<<<>>, <<"sub">>>>,
    <<<<"lib">>, <<"sub", "/", "deep">>>> }

\* method, entry, the files the staged change is about, delete or change
TranslateArgs ==
  { [method |-> m, entry |-> e, changed |-> ch, delete |-> d] :
      m \in {"land", "import"}, e \in TranslateEntries,
      ch \in SUBSET Paths, d \in BOOLEAN }

\* land diffs under parentPath and applies under childPath, import the
\* other way round
FromPath(a) == IF a.method = "land" THEN a.entry[1] ELSE a.entry[2]

ToPath(a) == IF a.method = "land" THEN a.entry[2] ELSE a.entry[1]

\* the arguments whose translated files are files of the model
TranslateInputs ==
  { a \in TranslateArgs :
      \A q \in a.changed :
        IsUnder(DiffDir(FromPath(a)), q) =>
          ApplyPath(q, Len(DiffDir(FromPath(a))), DiffDir(ToPath(a))) \in Paths }

\* const diff = await git.raw(['diff', ...diffArgs]); if (!diff) ...;
\* git apply ...applyArgs
Translate ==
  /\ ret = <<>>
  /\ LET diff == GitDiffCached(SourceCopy(arg.changed, arg.delete), DiffDir(FromPath(arg)))
         strip == StripCount(FromPath(arg))
         dir == ApplyDir(ToPath(arg))
     IN  ret' = IF diff = {} THEN <<"empty", TargetCopy.work>>
                ELSE IF CanApply(TargetCopy, diff, strip, dir)
                THEN <<"applied", GitApply(TargetCopy, diff, strip, dir).work>>
                ELSE <<"failed", TargetCopy.work>>
  /\ UNCHANGED <<remote, wc, plan, queue, pending, calls, tasks, delivered, hist,
                 faults, globalOpts, arg>>

SpecTranslate == InitArg(TranslateInputs) /\ [][Translate]_vars

\* the opts a caller may pass to Git.configure: each of the two options left
\* out or given some value, with or without an option configure does not know
OptValues ==
  { JsUndefined, JsNull, JsNumber("0"), JsNumber("1"), JsString(""),
    JsString("/clones"), JsFunction("myRemoteUrl") }

OptsValues ==
  { JsObject(a \cup b \cup c) :
      a \in {{}} \cup { {<<"getRemoteUrl", v>>} : v \in OptValues },
      b \in {{}} \cup { {<<"reposCloneDir", v>>} : v \in OptValues },
      c \in {{}, {<<"depth", JsNumber("1")>>}} }

\* Git.configure(opts); ret keeps whether it threw and GLOBAL_OPTS as they
\* were when it was called
Configure ==
  \E opts \in OptsValues :
    /\ arg' = opts
    /\ IF ConfigureThrows(opts)
       THEN /\ ret' = <<"Error", globalOpts>>
            /\ UNCHANGED globalOpts
       ELSE /\ ret' = <<"returned", globalOpts>>
            /\ globalOpts' = Configured(opts, globalOpts)
    /\ UNCHANGED <<remote, wc, plan, queue, pending, calls, tasks, delivered, hist, faults>>

SpecConfigure == InitArg({<<>>}) /\ [][Configure]_vars

(***************************************************************************)
(* Git.fetchLatest on its own: a working copy of the hub or of the child,  *)
(* in one of the states a call can leave it in or a user can put it in, is *)
(* refreshed once while the masters of the remotes may have moved on.      *)
(***************************************************************************)
\* the branch of the remote that a call would merge into the working copy
IncomingOf(r) == IF r = Hub THEN HubX ELSE ChildX

\* a file written to the working tree and not added: what git apply leaves
Untracked(w) == GitApply(w, {[path |-> <<"lib", "b">>, pre |-> 0, post |-> 1]}, 0, <<>>)

\* the states a working copy of repo r, cloned when the remotes were Remote0,
\* may be found in: not cloned yet; as cloned; on master with a staged merge
\* or an untracked file; on a leftover import branch with its commit; on a
\* fallback branch with a commit that was not pushed; on a detached HEAD;
\* each of the last three also with a fork remote left behind
PriorCopies(r) ==
  LET base     == GitClone(r, Remote0[r])
      merged   == GitMergeSquash(base, IncomingOf(r))
      imp      == GitCommit(GitCheckoutNew(merged, "imp"), Alice, InitMsg)
      fb       == GitCheckoutNew(GitCommit(merged, Alice, InitMsg), "fb")
      detached == [Untracked(merged) EXCEPT !.branch = "HEAD",
                                            !.heads["HEAD"] = <<HeadCommit(base)>>]
      forked   == { GitFetch(GitRemoteAdd(w, <<"bar">>, IF r = Hub THEN HubFork ELSE AFork),
                             <<"bar">>, "x") : w \in {imp, fb, detached} }
  IN  {NoClone, base, merged, Untracked(base), Untracked(merged), imp, fb, detached}
      \cup forked \cup { Untracked(w) : w \in forked }

RefreshArgs ==
  UNION { { [repo |-> r, copy |-> w] : w \in PriorCopies(r) } : r \in {Hub, RepoA} }

InitRefresh ==
  /\ remote \in Remotes
  /\ arg \in RefreshArgs
  /\ wc = [l \in LocalPaths |-> IF l = GetLocalPath(arg.repo) THEN arg.copy ELSE NoClone]
  /\ plan = <<>>
  /\ queue = [u \in Instances |-> <<>>]
  /\ pending = [u \in Instances |-> 0]
  /\ calls = [id \in CallIds |-> NewCall("usync1", "none", LandOpts("x", NoRepo, {}))]
  /\ tasks = {}
  /\ delivered = [id \in CallIds |-> <<>>]
  /\ hist = [id \in CallIds |-> NoHist]
  /\ faults = 0
  /\ globalOpts = DefaultOpts
  /\ ret = <<>>

\* await new Git(arg.repo).fetchLatest(); the clone or the fetch may fail
FetchLatest ==
  /\ ret = <<>>
  /\ \E ok \in BOOLEAN :
       /\ faults' = IF ok THEN faults ELSE faults + 1
       /\ wc' = SetW(arg.repo, IF ok THEN FetchLatestDone(W(arg.repo), arg.repo, remote)
                               ELSE FetchLatestFailed(W(arg.repo), arg.repo, remote))
       /\ ret' = <<IF ok THEN "returned" ELSE "GitError">>
  /\ UNCHANGED <<remote, plan, queue, pending, calls, tasks, delivered, hist, globalOpts, arg>>

SpecRefresh == InitRefresh /\ [][FetchLatest]_vars

(***************************************************************************)
(* getLocalPath on its own, for two repo names spelled character by        *)
(* character: an owner, the separator and a name.                          *)
(***************************************************************************)
MaxNameLen == 4

RepoNames ==
  { s \in SeqsUpTo({"a", "b", "/"}, MaxNameLen) :
      /\ Cardinality({ i \in 1..Len(s) : s[i] = "/" }) = 1
      /\ s[1] # "/" /\ s[Len(s)] # "/" }

NamePairs == { p \in RepoNames \X RepoNames : p[1] # p[2] }

\* new Git(arg[1]) and new Git(arg[2]): this.repoPath = getLocalPath(repoName)
NewGit ==
  /\ ret = <<>>
  /\ ret' = <<GetLocalPath(arg[1]), GetLocalPath(arg[2])>>
  /\ UNCHANGED <<remote, wc, plan, queue, pending, calls, tasks, delivered, hist,
                 faults, globalOpts, arg>>

SpecLocalPath == InitArg(NamePairs) /\ [][NewGit]_vars

(***************************************************************************)
(* The properties.                                                         *)
(***************************************************************************)
IsLand(id) == calls[id].kind = "land"

IsImport(id) == calls[id].kind = "import"

\* the method has returned or thrown
Returned(id) == calls[id].pc \in {"done", "settled"}

\* ... and none of its async bodies is still running
Quiet(id) == Returned(id) /\ \A t \in tasks : t.call # id

ReposOf(S) == { e[1] : e \in S }

\* the repos whose push to master was attempted and failed
PushFailed(id) == hist[id].pushTried \ ReposOf(hist[id].pushed)

\* the error a land is about to throw or has thrown
ErrOf(id) == IF calls[id].pc = "L_cleanup" THEN calls[id].err ELSE calls[id].result.error

\* the commit-and-push Promise.all resolved with a failed push recorded
ReachedFallback(id) ==
  \/ calls[id].pc = "L_fallbackWait"
  \/ /\ calls[id].pc \in {"L_cleanup", "done", "settled"}
     /\ ErrOf(id) # NoErr
     /\ ErrOf(id)[1].at \in {"push", "push fallback", "checkout -b"}

NoLaterCall(id) == \A j \in CallIds : j > id => calls[j].pc \in {"new", "queued"}

\* C1: in land, when git apply fails for a mapped repo, no repo is committed
\* to, no push and no fallback push is made by that call, and the call rejects.
C1_ApplyFailureAborts ==
  \A id \in CallIds :
    (IsLand(id) /\ hist[id].applyFailed # {}) =>
      /\ hist[id].committed = {}
      /\ hist[id].pushTried = {}
      /\ hist[id].fallback = {}
      /\ calls[id].pc \in {"L_cleanup", "done", "settled"}
      /\ calls[id].pc = "L_cleanup" => calls[id].err # NoErr
      /\ Returned(id) => calls[id].result.status = "rejected"

\* a land has settled, rejected with the error of its failed git apply
C1_Witness ==
  \E id \in CallIds :
    /\ IsLand(id) /\ hist[id].applyFailed # {}
    /\ delivered[id] # <<>> /\ delivered[id][1].status = "rejected"
    /\ delivered[id][1].error[1].at = "apply"

\* C2: in land, when repos were committed and their push to master failed
\* (and no fallback checkout or push failed), every one of them has its
\* commit pushed as the fallback branch, and the call rejects with one
\* USyncError that lists exactly those repos.
C2_FallbackRecovery ==
  \A id \in CallIds :
    (/\ IsLand(id) /\ Quiet(id)
     /\ PushFailed(id) # {}
     /\ hist[id].fallbackFailed = {}) =>
      /\ calls[id].result.status = "rejected"
      /\ calls[id].result.error # NoErr
      /\ calls[id].result.error[1].name = "USyncError"
      /\ LET repos == calls[id].result.error[1].repos
         IN  /\ { repos[k] : k \in 1..Len(repos) } = PushFailed(id)
             /\ Len(repos) = Cardinality(PushFailed(id))
      /\ \A r \in PushFailed(id) :
           \E e \in hist[id].fallback : e[1] = r /\ e \in hist[id].committed

\* C3: in land, once the commit-and-push phase is over with a failed push,
\* every mapped repo and the hub was found clean or was committed and had its
\* push attempted; and whatever a call pushed to a master stays in that
\* master although a push of the call failed.
C3_PushFailureIsolated ==
  \A id \in CallIds :
    IsLand(id) =>
      /\ ReachedFallback(id) =>
           \A r \in hist[id].mapped :
             \/ r \in hist[id].clean
             \/ r \in ReposOf(hist[id].committed) /\ r \in hist[id].pushTried
      /\ PushFailed(id) # {} =>
           \A e \in hist[id].pushed : IsAncestor(e[2], remote[e[1]]["master"][1])

\* a land has thrown the USyncError of a failed push, after another repo of
\* the same call was pushed
C3_Witness ==
  \E id \in CallIds :
    /\ IsLand(id) /\ Returned(id)
    /\ calls[id].result.error # NoErr
    /\ calls[id].result.error[1].name = "USyncError"
    /\ calls[id].result.error[1].at = "push"
    /\ hist[id].pushed # {}
    /\ PushFailed(id) # {}

\* C4: when land resolves, every mapped repo and the hub went through
\* commit-and-push; the keys of the returned map are exactly the repos found
\* dirty, each was committed and pushed, and each sha is the commit pushed;
\* no repo found clean is a key.
C4_ResultMap ==
  \A id \in CallIds :
    (IsLand(id) /\ Returned(id) /\ calls[id].result.status = "resolved") =>
      LET value == calls[id].result.value
      IN  /\ HubOf(calls[id]) \in hist[id].mapped
          /\ hist[id].mapped \subseteq hist[id].clean \cup hist[id].dirty
          /\ ReposOf(value) = hist[id].dirty
          /\ ReposOf(value) \cap hist[id].clean = {}
          /\ Cardinality(value) = Cardinality(ReposOf(value))
          /\ value \subseteq hist[id].committed
          /\ value \subseteq hist[id].pushed

\* C5: the calls of an instance run one at a time in submission order: a
\* call that has started finds every call submitted before it settled, and
\* the waiting calls wait in submission order.
C5_OneAtATime ==
  /\ \A i, j \in CallIds :
       i < j =>
         /\ calls[j].pc \notin {"new", "queued"} => calls[i].pc = "settled"
         /\ calls[j].pc # "new" => calls[i].pc # "new"
  /\ \A u \in Instances :
       \A k \in 1..(Len(queue[u]) - 1) : queue[u][k] < queue[u][k + 1]

\* a call waits in the queue while the call submitted before it is running
C5_Witness ==
  \E i, j \in CallIds :
    /\ i < j
    /\ calls[j].pc = "queued"
    /\ calls[i].pc \notin {"new", "queued", "done", "settled"}

\* C6: the caller's promise settles exactly when the call settles, with the
\* very result of the method; a waiting call is in the queue once and a
\* settled call never runs again.
C6_Forwarded ==
  /\ \A id \in CallIds :
       /\ delivered[id] # <<>> <=> calls[id].pc = "settled"
       /\ delivered[id] # <<>> =>
            /\ delivered[id][1] = calls[id].result
            /\ delivered[id][1].status \in {"resolved", "rejected"}
       /\ calls[id].pc = "queued" <=>
            \E u \in Instances : \E k \in 1..Len(queue[u]) : queue[u][k] = id
  /\ \A u \in Instances :
       \A k, l \in 1..Len(queue[u]) : queue[u][k] = queue[u][l] => k = l

\* one caller got a rejection and another caller got a map with landed repos
C6_Witness ==
  \E i, j \in CallIds :
    /\ delivered[i] # <<>> /\ delivered[i][1].status = "rejected"
    /\ delivered[j] # <<>> /\ delivered[j][1].status = "resolved"
    /\ delivered[j][1].value # {}

\* C7: when a land that added the fork remote to the hub's working copy has
\* settled (and no later call has started), the remote is gone.
C7_RemoteRemoved ==
  \A id \in CallIds :
    (IsLand(id) /\ hist[id].addedRemote /\ Returned(id) /\ NoLaterCall(id)) =>
      ~HasRemote(W(HubOf(calls[id])), RemoteNameOf(calls[id]))

\* C8: when an import has resolved (and no later call has started),
\* newBranch of the hub's remote is one commit on top of the hub's master,
\* with the computed author and message.
C8_BranchPushed ==
  \A id \in CallIds :
    (/\ IsImport(id) /\ Returned(id) /\ NoLaterCall(id)
     /\ calls[id].result.status = "resolved") =>
      /\ hist[id].branchPushed # <<>>
      /\ remote[HubOf(calls[id])][calls[id].opts.newBranch] = hist[id].branchPushed
      /\ hist[id].branchPushed[1].parent = remote[HubOf(calls[id])]["master"]
      /\ hist[id].meta # <<>>
      /\ hist[id].branchPushed[1].author = hist[id].meta[1]
      /\ hist[id].branchPushed[1].msg = hist[id].meta[2]

\* the mapping of the imported repo, as the import read it
ImportMapping(id) == MappingOf(GetConfig(hist[id].onto[1]), BaseOf(calls[id]))

ImportInSync(id) ==
  /\ IsAncestor(hist[id].ontoChild[1], hist[id].source[1])
  /\ ChildView(hist[id].onto[1].tree, ImportMapping(id)) = hist[id].ontoChild[1].tree

HubLanded(id) ==
  LET hub == HubOf(calls[id])  value == calls[id].result.value
  IN  IF \E e \in value : e[1] = hub
      THEN (CHOOSE e \in value : e[1] = hub)[2]
      ELSE remote[hub]["master"][1]

\* C10: when land has resolved (and no later call has started), the commit
\* of every mapped repo in the map (that was in sync with the hub when the
\* call fetched it) holds exactly what the hub's commit holds under the
\* repo's mapping.
C10_ChildEqualsSubdir ==
  \A id \in CallIds :
    (/\ IsLand(id) /\ Returned(id) /\ NoLaterCall(id)
     /\ calls[id].result.status = "resolved") =>
      \A e \in calls[id].result.value :
        (e[1] # HubOf(calls[id]) /\ e[1] \in hist[id].inSync) =>
          e[2].tree = ChildView(HubLanded(id).tree,
                                MappingOf(GetConfig(HubLanded(id)), e[1]))

\* C11: when a land of the branch that moves a file into the mapped
\* subdirectory and another file out of it has resolved (no later call has
\* started, and the external repo was in sync with the hub when the call
\* fetched it), the hub and the external repo are both in the result, and
\* the external repo's commit holds what the hub's commit holds under the
\* subdirectory: the moved-in file added, the moved-out file deleted.
C11_MovedAcrossBoundary ==
  \A id \in CallIds :
    (/\ IsLand(id) /\ calls[id].opts.headBranch = "m"
     /\ Returned(id) /\ NoLaterCall(id)
     /\ calls[id].result.status = "resolved"
     /\ RepoA \in hist[id].inSync) =>
      /\ {Hub, RepoA} \subseteq ReposOf(calls[id].result.value)
      /\ \A e \in calls[id].result.value :
           e[1] = RepoA =>
             /\ e[2].tree = ChildView(HubLanded(id).tree,
                                      MappingOf(GetConfig(HubLanded(id)), RepoA))
             /\ e[2].tree[<<"b">>] = 1
             /\ e[2].tree[<<"a">>] = 0

\* the commit message is the text and then nothing, or an empty line and
\* Co-authored-by trailers only
MessageIs(msg, text) ==
  /\ msg # <<>> /\ msg[1] = TextLine(text)
  /\ Len(msg) > 1 =>
       /\ Len(msg) >= 3 /\ msg[2] = TextLine("")
       /\ \A k \in 3..Len(msg) : msg[k].kind = "coauthor"

\* C12 as stated: every commit of a land carries commitMessages[repoName]
\* when the caller supplied an entry for the repo, commitMessages.generic
\* otherwise, followed by trailers only.
C12_CommitMessage ==
  \A id \in CallIds :
    IsLand(id) =>
      \A e \in hist[id].committed :
        MessageIs(e[2].msg,
                  IF \E m \in calls[id].opts.perRepo : m[1] = e[1]
                  THEN (CHOOSE m \in calls[id].opts.perRepo : m[1] = e[1])[2]
                  ELSE calls[id].opts.generic)

\* C12: every commit of a land carries commitMessages[repoName] when the
\* caller supplied a non-empty message for the repo, commitMessages.generic
\* otherwise (also when the supplied message is the empty string), followed
\* by trailers only.
C12_CommitMessageNonEmpty ==
  \A id \in CallIds :
    IsLand(id) =>
      \A e \in hist[id].committed :
        MessageIs(e[2].msg,
                  IF \E m \in calls[id].opts.perRepo : m[1] = e[1] /\ m[2] # ""
                  THEN (CHOOSE m \in calls[id].opts.perRepo : m[1] = e[1])[2]
                  ELSE calls[id].opts.generic)

\* one land committed the hub with the message supplied for it and the
\* external repo with the generic message, both with trailers
C12_Witness ==
  \E id \in CallIds :
    /\ IsLand(id) /\ <<Hub, "Land in hub">> \in calls[id].opts.perRepo
    /\ \E e \in hist[id].committed :
         e[1] = Hub /\ e[2].msg[1] = TextLine("Land in hub") /\ Len(e[2].msg) > 1
    /\ \E e \in hist[id].committed :
         e[1] = RepoA /\ e[2].msg[1] = TextLine(calls[id].opts.generic) /\ Len(e[2].msg) > 1

\* the identities of the Co-authored-by trailers of a message, in order
Trailers(msg) ==
  LET co == SelectSeq(msg, LAMBDA l : l.kind = "coauthor")
  IN  [k \in 1..Len(co) |-> co[k].val]

\* the place of an identity in the order of the "Name <email>" strings
Rank(a) == CHOOSE k \in 1..Len(IdOrder) : IdOrder[k] = a

C14_EarliestAuthor ==
  \A id \in CallIds :
    \A e \in hist[id].committed :
      \A rg \in hist[id].ranges :
        rg[1] = e[1] => e[2].author = rg[2][Len(rg[2])].author

\* the head of the incoming branch, on the fork when landing from a fork
IncomingHead(c) ==
  remote[IF IsFork(c) THEN c.opts.headRepoName ELSE HubOf(c)][c.opts.headBranch][1]

\* the repos the configuration at a commit maps
MappedRepos(commit) ==
  { GetConfig(commit).mapping[k][1] : k \in 1..Len(GetConfig(commit).mapping) }

\* C15: the configuration a land works with is the one at the head of the
\* incoming branch: the apply-all phase runs for the repos and with the
\* paths that configuration maps, commit-and-push runs for those repos and
\* the hub, and no other repo is committed to.
C15_ConfigAtIncomingHead ==
  \A id \in CallIds :
    IsLand(id) =>
      LET head == IncomingHead(calls[id])  hub == HubOf(calls[id])
      IN  /\ calls[id].pc \in {"L_merge", "L_applyWait", "L_user"} =>
               calls[id].config = GetConfig(head)
          /\ \A t \in tasks :
               (t.call = id /\ t.phase \in {"apply", "commit"} /\ t.repo # hub) =>
                 /\ t.repo \in MappedRepos(head)
                 /\ t.mapping = MappingOf(GetConfig(head), t.repo)
          /\ hist[id].mapped # {} => hist[id].mapped = MappedRepos(head) \cup {hub}
          /\ ReposOf(hist[id].committed) \subseteq MappedRepos(head) \cup {hub}

\* a land of the branch that takes a repo out of the mapping has resolved:
\* it went through the hub and the repo the branch still maps, while the
\* hub's master it started from maps the other repo as well
C15_Witness ==
  \E id \in CallIds :
    /\ IsLand(id) /\ calls[id].opts.headBranch = "c"
    /\ Returned(id) /\ calls[id].result.status = "resolved"
    /\ hist[id].mapped = {Hub, RepoA}
    /\ Hub \in ReposOf(calls[id].result.value)
    /\ RepoB \in MappedRepos(HubMaster0)

\* the hub's configuration, at the master the remote holds, has no mapping
\* or an empty mapping for the base repo of the import
BaseUnmapped(id) ==
  MappingOf(GetConfig(remote[HubOf(calls[id])]["master"][1]), BaseOf(calls[id])) = <<>>

\* C16: an import whose base repo has no mapping or an empty mapping in the
\* hub's configuration fails with a USyncError at the mapping check, and it
\* fails there before it starts any work on the base repo (no refresh, no
\* fetch), before it creates a branch in the hub and before it pushes.
C16_NoMappingFailsEarly ==
  \A id \in CallIds :
    (IsImport(id) /\ ValidConfig(GetConfig(remote[HubOf(calls[id])]["master"][1]))
                  /\ BaseUnmapped(id)) =>
      /\ calls[id].pc \in {"new", "queued", "I_fetchLatest", "I_config", "done", "settled"}
      /\ \A t \in tasks : t.call # id
      /\ hist[id] = NoHist
      /\ Returned(id) =>
           /\ calls[id].result.status = "rejected"
           /\ calls[id].result.error \in {Err("USyncError", <<>>, "mapping"),
                                           GitErr("fetchLatest")}
      /\ (Returned(id) /\ faults = 0) =>
           calls[id].result.error = Err("USyncError", <<>>, "mapping")

\* an import into a repo with an empty mapping has failed at the mapping
\* check, with the base repo's working copy as it was and nothing pushed
C16_Witness ==
  \E id \in CallIds :
    /\ IsImport(id) /\ BaseOf(calls[id]) = RepoB
    /\ remote[Hub]["master"][1] = HubMasterEmpty
    /\ Returned(id)
    /\ calls[id].result.error = Err("USyncError", <<>>, "mapping")
    /\ id = 1 /\ W(RepoB) = NoClone

\* the configuration has a mapping object
HasMappingObject(config) ==
  /\ config.t = "object"
  /\ HasKey(config, "mapping")
  /\ Get(config, "mapping").t = "object"

\* some entry of the mapping maps to a directory of the repo other than its root
MapsToSubpath(config) ==
  \E r \in Get(config, "mapping").f : \E e \in r[2].f : e[2] # JsString("/")

\* C17: validateConfig throws its USyncError when the configuration is absent
\* or has no mapping object, and returns for every configuration that has
\* one, whatever directories its entries map to.
C17_ValidateConfig ==
  ret # <<>> => (ret[1] = "USyncError" <=> ~HasMappingObject(arg))

\* C18: validateConfig throws its USyncError when an entry of the mapping maps
\* a hub directory to a directory of the repo other than its root.
C18_SubpathRejected ==
  (ret # <<>> /\ HasMappingObject(arg) /\ MapsToSubpath(arg)) => ret[1] = "USyncError"

\* the call has started and has not returned, or bodies it started still run
Running(id) ==
  \/ calls[id].pc \notin {"new", "queued", "done", "settled"}
  \/ \E t \in tasks : t.call = id

\* the working copies the call is at work in: the hub's, and those of the
\* repos its running bodies are for
WorkingCopies(id) ==
  { GetLocalPath(HubOf(calls[id])) : x \in { y \in {1} : calls[id].pc \notin {"new", "queued", "done", "settled"} } }
  \cup { GetLocalPath(t.repo) : t \in { u \in tasks : u.call = id } }

\* C19: no two calls are at work in the same local working copy at the same
\* time, whatever instances they were made on.
C19_MutualExclusion ==
  \A i, j \in CallIds :
    (i # j /\ Running(i) /\ Running(j)) => WorkingCopies(i) \cap WorkingCopies(j) = {}

\* the option is supplied and is not of the type it has to be of
SuppliedNot(opts, key, type) ==
  HasKey(opts, key) /\ Get(opts, key) # JsUndefined /\ Get(opts, key).t # type

\* C20: Git.configure throws, with the options as they were, when getRemoteUrl
\* is supplied and is not a function or reposCloneDir is supplied and is not a
\* string, and only then; after any sequence of calls getRemoteUrl is a
\* function, reposCloneDir is a string and no other option has appeared.
C20_Configure ==
  /\ Get(globalOpts, "getRemoteUrl").t = "function"
  /\ Get(globalOpts, "reposCloneDir").t = "string"
  /\ { e[1] : e \in globalOpts.f } = {"getRemoteUrl", "reposCloneDir"}
  /\ ret # <<>> =>
       /\ ret[1] = "Error" <=> \/ SuppliedNot(arg, "getRemoteUrl", "function")
                               \/ SuppliedNot(arg, "reposCloneDir", "string")
       /\ ret[1] = "Error" => globalOpts = ret[2]

\* the bodies of a phase of the call that still run
TasksOf(id, phase) == { t \in tasks : t.call = id /\ t.phase = phase }

\* C21: land keeps its phases in order: a repo is committed to only when the
\* apply step has ended, without a failure, in every mapped repo; a push is
\* attempted only in a repo the call has committed to; and a fallback branch
\* is created only when the commit-and-push attempt of every repo is over.
C21_PhaseOrder ==
  \A id \in CallIds :
    IsLand(id) =>
      /\ (hist[id].committed # {} \/ TasksOf(id, "commit") # {}) =>
           /\ TasksOf(id, "apply") = {}
           /\ hist[id].applyFailed = {}
      /\ hist[id].pushTried \subseteq ReposOf(hist[id].committed)
      /\ (\/ TasksOf(id, "fallback") # {}
          \/ hist[id].fallback # {}
          \/ hist[id].fallbackFailed # {}) =>
           /\ TasksOf(id, "commit") = {}
           /\ \A r \in hist[id].mapped : r \in hist[id].clean \cup hist[id].pushTried

\* a land went through all its phases: it applied to a mapped repo, one
\* repo's push succeeded, another's failed and went to the fallback branch
C21_Witness ==
  \E id \in CallIds :
    /\ IsLand(id) /\ Returned(id)
    /\ hist[id].pushed # {}
    /\ hist[id].fallback # {}
    /\ \E r \in ReposOf(hist[id].committed) : r # HubOf(calls[id])

\* the working copy holds what the patch puts there
HoldsPatch(w, patch, strip, dir) ==
  \A e \in patch :
    /\ Len(e.path) > strip
    /\ ApplyPath(e.path, strip, dir) \in Paths
    /\ w.work[ApplyPath(e.path, strip, dir)] = e.post

\* C22: when land's apply phase is over, every entry of every repo's mapping
\* has been translated and applied, whether or not the diff of another entry
\* of the same mapping was empty: the repo's working copy holds the staged
\* change of the hub under each of its entries.
C22_EveryEntryApplied ==
  \A id \in CallIds :
    (IsLand(id) /\ calls[id].pc = "L_user" /\ tasks = {}) =>
      LET hub == HubOf(calls[id])  mapping == calls[id].config.mapping
      IN  \A k \in 1..Len(mapping) :
            \A j \in 1..Len(mapping[k][2]) :
              LET e == mapping[k][2][j]
              IN  HoldsPatch(W(mapping[k][1]),
                             GitDiffCached(W(hub), DiffDir(e[1])),
                             StripCount(e[1]), ApplyDir(e[2]))

\* C23: when an import has resolved (and no later call has started), its
\* cleanup has run: the hub's working copy is on master, the local branch
\* newBranch is gone, the base repo's working copy is clean, and the fork
\* remote is gone from it.
C23_CleanupRan ==
  \A id \in CallIds :
    (/\ IsImport(id) /\ Returned(id) /\ NoLaterCall(id)
     /\ calls[id].result.status = "resolved") =>
      LET c == calls[id]  hub == W(HubOf(c))  base == W(BaseOf(c))
      IN  /\ hub.branch = "master"
          /\ hub.heads[c.opts.newBranch] = <<>>
          /\ WorkdirIsClean(base)
          /\ IsFork(c) => ~HasRemote(base, RemoteNameOf(c))

\* the incoming branch of the land puts content v at path p of repo r: p is
\* where an entry of r's mapping (for the hub, the path itself) puts a hub
\* file that has content v at the head of the branch
FromIncoming(id, r, p, v) ==
  LET head == IncomingHead(calls[id])
      mapping == IF r = HubOf(calls[id]) THEN DummyMapping
                 ELSE MappingOf(GetConfig(head), r)
  IN  \E k \in 1..Len(mapping) : \E q \in Paths :
        /\ IsUnder(DiffDir(mapping[k][1]), q)
        /\ ApplyPath(q, StripCount(mapping[k][1]), ApplyDir(mapping[k][2])) = p
        /\ head.tree[q] = v

\* C24: what an aborted land left in a working copy is discarded by the
\* refresh of the next call, so every change a land commits to a repo is a
\* change of its own incoming branch, translated by the repo's mapping.
C24_NoLeftoverCommitted ==
  \A id \in CallIds :
    IsLand(id) =>
      \A e \in hist[id].committed :
        \A p \in Touched(e[2]) : FromIncoming(id, e[1], p, e[2].tree[p])

\* C25: land stays in its commit-and-push phase until the attempt of every
\* mapped repo and of the hub is over: while a body of the phase still runs,
\* land is awaiting the phase, whatever has failed in another body.
C25_CommitPhaseNotFailFast ==
  \A id \in CallIds :
    (IsLand(id) /\ TasksOf(id, "commit") # {}) => calls[id].pc = "L_commitWait"

\* the commit the call reads the configuration at: the head of the incoming
\* branch for a land, the hub's master for an import
ConfigCommit(id) ==
  IF IsLand(id) THEN IncomingHead(calls[id])
  ELSE remote[HubOf(calls[id])]["master"][1]

\* .usyncrc.json is missing at the commit or is not JSON
Unreadable(commit) ==
  commit.tree[CfgPath] = 0 \/ ~ConfigDoc(commit.tree[CfgPath]).parses

\* C26: when the configuration is missing or cannot be parsed at the commit
\* a land or an import reads it at, the call fails with the USyncError of
\* validateConfig (unless its prepare step failed before), and it applies,
\* commits and pushes nothing in any repo.
C26_UnreadableConfig ==
  \A id \in CallIds :
    (calls[id].kind \in {"land", "import"} /\ Unreadable(ConfigCommit(id))) =>
      /\ GetConfig(ConfigCommit(id)) = NoConfig
      /\ \A t \in tasks : t.call # id
      /\ hist[id].committed = {} /\ hist[id].pushTried = {} /\ hist[id].pushed = {}
      /\ hist[id].fallback = {} /\ hist[id].branchPushed = <<>>
      /\ hist[id].onto = <<>> /\ hist[id].applyFailed = {}
      /\ calls[id].pc \in {"new", "queued", "L_fetchLatest", "L_addRemote", "L_fetchHead",
                            "L_config", "L_cleanup", "I_fetchLatest", "I_config",
                            "done", "settled"}
      /\ Returned(id) =>
           /\ calls[id].result.status = "rejected"
           /\ calls[id].result.error \in {Err("USyncError", <<>>, "config"),
                                           GitErr("fetchLatest"), GitErr("fetch")}
      /\ (Returned(id) /\ faults = 0) =>
           calls[id].result.error = Err("USyncError", <<>>, "config")

\* a land of the branch without .usyncrc.json and an import into a hub whose
\* .usyncrc.json is not JSON have both failed in validateConfig
C26_Witness ==
  \E i, j \in CallIds :
    /\ IsLand(i) /\ calls[i].opts.headBranch = "e"
    /\ IsImport(j) /\ remote[Hub]["master"][1] = HubU
    /\ Returned(i) /\ calls[i].result.error = Err("USyncError", <<>>, "config")
    /\ Returned(j) /\ calls[j].result.error = Err("USyncError", <<>>, "config")

\* the path neither starts nor ends with a separator
Normalized(path) == path = <<>> \/ (path[1] # "/" /\ path[Len(path)] # "/")

\* C27: every hub path and every repo path of the mapping _getConfig returns
\* is normalized, and a path that is a separator only has become the empty
\* string.
C27_PathsNormalized ==
  ret # <<>> =>
    /\ \A k \in 1..Len(ret[1]) : Normalized(ret[1][k][1]) /\ Normalized(ret[1][k][2])
    /\ \A k \in 1..Len(arg) :
         /\ arg[k][1] = <<"/">> => \E j \in 1..Len(ret[1]) : ret[1][j][1] = <<>>
         /\ arg[k][2] = <<"/">> => \E j \in 1..Len(ret[1]) : ret[1][j][2] = <<>>

\* where the entry puts the source file q: the source path taken off, the
\* target path put in front
Translated(a, q) ==
  Components(ToPath(a)) \o SubSeq(q, Len(Components(FromPath(a))) + 1, Len(q))

\* the files of the staged change that lie under the source path
InScope(a) == { q \in a.changed : IsUnder(Components(FromPath(a)), q) }

\* C28: for an entry (parentPath, childPath) with flat or nested paths, the
\* change of a source file under the source path arrives at the same relative
\* path under the target path, every other file of the target is left as it
\* was, and an empty path matches every file and strips or prepends nothing.
C28_PathTranslation ==
  ret # <<>> =>
    /\ ret[1] # "failed"
    /\ ret[1] = "empty" <=> InScope(arg) = {}
    /\ \A q \in InScope(arg) :
         ret[2][Translated(arg, q)] = Staged(arg.changed, arg.delete)[q]
    /\ \A p \in Paths :
         (~\E q \in InScope(arg) : Translated(arg, q) = p) => ret[2][p] = TranslateBase[p]
    /\ (FromPath(arg) = <<>> /\ ToPath(arg) = <<>>) =>
         ret[2] = Staged(arg.changed, arg.delete)

\* a land translated a change under the nested path sub/deep to lib, while a
\* change outside sub/deep was staged as well and was left out
C28_Witness ==
  /\ ret # <<>> /\ ret[1] = "applied"
  /\ arg.method = "land"
  /\ arg.entry = <<<<"sub", "/", "deep">>, <<"lib">>>>
  /\ arg.changed = {<<"sub", "deep", "a">>, <<"sub", "a">>}
  /\ ret[2][<<"lib", "a">>] = 2
  /\ ret[2][<<"sub", "a">>] = 1

\* the commits the incoming branch of the land adds to the hub
IncomingCommits(id) == ChainSet(IncomingHead(calls[id])) \ ChainSet(HubMaster0)

\* the commit changes a file under a hub path of the repo's mapping
TouchesMapped(c, id, r) ==
  LET mapping == MappingOf(GetConfig(IncomingHead(calls[id])), r)
  IN  \E k \in 1..Len(mapping) : \E p \in Touched(c) : IsUnder(Components(mapping[k][1]), p)

\* C29: in land, the author and the Co-authored-by trailers of the commit
\* made in an external repo are identities of incoming hub commits that
\* change a file under the repo's mapped hub paths, while the hub's commit
\* names every identity of the incoming commits (but the operator).
C29_AuthorsScoped ==
  \A id \in CallIds :
    IsLand(id) =>
      \A e \in hist[id].committed :
        IF e[1] # HubOf(calls[id])
        THEN \A a \in CommitIdentities(e[2]) :
               \E c \in IncomingCommits(id) :
                 a \in CommitIdentities(c) /\ TouchesMapped(c, id, e[1])
        ELSE \A c \in IncomingCommits(id) :
               CommitIdentities(c) \subseteq CommitIdentities(e[2]) \cup {GetGlobalUser}

\* a land of the branch whose first commit changes sub and whose second
\* commit, by another author, changes lib: the repo mapped to sub is committed
\* to without the second author, the hub with both
C29_Witness ==
  \E id \in CallIds :
    /\ IsLand(id) /\ calls[id].opts.headBranch = "y"
    /\ \E e \in hist[id].committed :
         e[1] = RepoA /\ CommitIdentities(e[2]) = {Alice}
    /\ \E e \in hist[id].committed :
         e[1] = Hub /\ CommitIdentities(e[2]) = {Alice, Bob}

\* the message the caller supplied for the commit of repo r
BaseMessage(id, r) ==
  IF IsLand(id) THEN MessageFor(calls[id].opts, r) ELSE calls[id].opts.message

\* the identities of the range but the commit's author and the operator, sorted
Remaining(commits, author) ==
  SelectSeq(IdOrder,
            LAMBDA a : /\ a \in UNION { CommitIdentities(commits[k]) : k \in 1..Len(commits) }
                       /\ a \notin {author, GetGlobalUser})

C31_HubSquashCommit ==
  \A id \in CallIds :
    (/\ IsLand(id) /\ Returned(id) /\ NoLaterCall(id)
     /\ calls[id].result.status = "resolved") =>
      LET hub  == HubOf(calls[id])
          head == IncomingHead(calls[id])
          m    == remote[hub]["master"][1]
      IN  \/ /\ <<hub, m>> \in calls[id].result.value
             /\ m.parent # <<>>
             /\ m.tree = MergedTree(m.parent[1], head)
             /\ m.tree # m.parent[1].tree
          \/ /\ hub \notin ReposOf(calls[id].result.value)
             /\ MergedTree(m, head) = m.tree

\* C32: when fetchLatest has returned for a working copy found in any state,
\* the working copy is on master, local master and origin/master are the
\* master of the remote, the branch that was checked out (if it was not
\* master) is gone; a working copy that was there is still the same clone
\* (its other branches and its remotes are kept), also when fetchLatest fails.
C32_FetchLatest ==
  ret # <<>> =>
    LET w == W(arg.repo)  prior == arg.copy
    IN  /\ ret[1] = "returned" =>
             /\ w.exists /\ w.branch = "master"
             /\ w.heads["master"] = remote[arg.repo]["master"]
             /\ HasRef(w, Origin, "master")
             /\ Ref(w, Origin, "master") = remote[arg.repo]["master"][1]
             /\ w.index = remote[arg.repo]["master"][1].tree
             /\ (prior.exists /\ prior.branch # "master") => w.heads[prior.branch] = <<>>
        /\ prior.exists =>
             /\ w.exists /\ w.origin = prior.origin /\ w.remotes = prior.remotes
             /\ \A b \in BranchNames \ {"master", prior.branch} : w.heads[b] = prior.heads[b]
             /\ \A t \in prior.rrefs : t[1] # Origin \/ t[2] # "master" => t \in w.rrefs

\* fetchLatest has returned for a working copy found on the fallback branch
\* with a commit that was never pushed and a fork remote left behind, while
\* the master of the remote has moved on
C32_Witness ==
  /\ ret = <<"returned">>
  /\ arg.copy.branch = "fb" /\ arg.copy.remotes # {}
  /\ arg.copy.heads["master"] # Remote0[arg.repo]["master"]
  /\ remote[arg.repo]["master"] # Remote0[arg.repo]["master"]
  /\ W(arg.repo).branch = "master"

\* C33: when the method of a call has returned or thrown, none of the async
\* bodies the call started is still running, so no body of an earlier call
\* runs while a later call is at work.
C33_SettledIsQuiet ==
  /\ \A id \in CallIds : Returned(id) => \A t \in tasks : t.call # id
  /\ \A i, j \in CallIds :
       (i < j /\ calls[j].pc \notin {"new", "queued"}) => \A t \in tasks : t.call # i

\* C34: a call is never made to fail by what a failed call before it left
\* in a working copy.  git remote add of the fork remote cannot fail in a
\* working copy no call has left anything in, so no call fails there.
C34_NoWedge ==
  \A id \in CallIds :
    calls[id].pc \in {"L_cleanup", "done", "settled"} => ErrOf(id) # GitErr("remote add")

\* the call has been started by the queue
Started(id) == calls[id].pc \notin {"new", "queued"}

\* C35: every call submitted to an instance is eventually started, whether
\* or not a call before it has rejected, and the calls are started in the
\* order they were submitted in.
C35_QueueGoesOn ==
  /\ \A id \in CallIds : (calls[id].pc = "queued") ~> Started(id)
  /\ [](\A i, j \in CallIds : (i < j /\ Started(j)) => Started(i))

\* a call has been started after the call submitted before it was rejected
C35_Witness ==
  \E i, j \in CallIds :
    /\ i < j /\ Started(j)
    /\ delivered[i] # <<>> /\ delivered[i][1].status = "rejected"

\* C36: no step of an import, of one that succeeds or of one that fails,
\* changes a branch of a remote other than the branch newBranch of the hub's
\* remote, and that one only in the push of the import.
C36_ImportFrame ==
  [][\A r \in AllRepos, b \in BranchNames :
       remote'[r][b] # remote[r][b] =>
         /\ r = Hub
         /\ \E id \in CallIds :
              /\ IsImport(id) /\ calls[id].pc = "I_push"
              /\ b = calls[id].opts.newBranch /\ b # "master"]_vars

\* an import from a fork has pushed its branch and resolved, and another
\* import has committed and then failed
C36_Witness ==
  \E i, j \in CallIds :
    /\ IsImport(i) /\ IsFork(calls[i]) /\ Returned(i)
    /\ calls[i].result.status = "resolved" /\ hist[i].branchPushed # <<>>
    /\ remote[Hub]["imp"] # <<>>
    /\ IsImport(j) /\ Returned(j) /\ calls[j].result.status = "rejected"
    /\ hist[j].committed # {}

\* the repos the configuration of the land lists with an empty mapping
EmptyMapped(id) ==
  { r \in MappedRepos(IncomingHead(calls[id])) \ {HubOf(calls[id])} :
      MappingOf(GetConfig(IncomingHead(calls[id])), r) = <<>> }

\* C37: a repo the configuration lists with an empty mapping is left alone
\* by land: no body of the apply phase runs for it, it is not committed to,
\* not pushed and not in the result, and the land does not fail on it (git
\* status fails only in a working copy no call has cloned).
C37_EmptyMappingSkipped ==
  \A id \in CallIds :
    IsLand(id) =>
      /\ \A r \in EmptyMapped(id) :
           /\ \A t \in tasks : (t.call = id /\ t.phase = "apply") => t.repo # r
           /\ r \notin ReposOf(hist[id].committed) \cup hist[id].pushTried
           /\ r \notin ReposOf(calls[id].result.value)
      /\ calls[id].pc \in {"L_cleanup", "done", "settled"} => ErrOf(id) # GitErr("status")

\* C38: the working copies of two different repo names are two different
\* directories.
C38_DistinctPaths ==
  ret # <<>> => ret[1] # ret[2]

====
